---------------------------- MODULE Spec2Model ----------------------------
(***************************************************************************)
(* DeepEar dashboard: the run registry (WorkflowRunner), the orchestrator  *)
(* (_run_workflow / _run_update), the event bridge (DashboardCallback),    *)
(* the broadcaster / run state cache (RunState, websocket_endpoint) and    *)
(* the hosting coroutine (start_run / execute_workflow).                   *)
(*                                                                         *)
(* Three specifications share the same actions:                            *)
(*   Spec      several calling threads use the registry concurrently;      *)
(*   SpecOrch  one run is driven through every phase of the orchestrator   *)
(*             while another thread may call cancel;                       *)
(*   SpecHost  the dashboard server starts runs, delivers their events on  *)
(*             the event loop, serves websocket clients and finalizes.     *)
(***************************************************************************)
EXTENDS Integers, Sequences, FiniteSets, TLC

(* ------------------------------ bounds --------------------------------- *)
NCallers == 2        \* calling threads of Spec
MaxThreads == 2      \* Thread objects created in one behaviour of Spec
MaxSources == 1      \* sources the resolved source list may hold (SpecOrch)
MaxQueries == 1      \* search queries the intent agent may return (SpecOrch)
MaxItems == 2        \* items the LLM filter may return (SpecOrch)
MaxK == 2            \* largest concurrency a run is started with (SpecOrch)
NClients == 2        \* websocket clients (SpecHost)
MaxRuns == 1         \* runs started through start_run (SpecHost)
MaxInFlight == 2     \* broadcasts suspended in their fan-out at one time (SpecHost)
MaxQueued == 3       \* events waiting for the event loop while the worker goes on (SpecPub)
MaxPoolItems == 3    \* items the LLM filter may return in SpecPool (more than MaxK)
MaxShort == 1        \* leading items whose stored content may be short (SpecPool)
MaxDeletes == 1      \* run records deleted through delete_run (SpecStore)
MaxJobs == 2         \* jobs submitted to the skill server (SpecSkill)
MaxEmits == 2        \* calls of _send_event in one behaviour of SpecBridge

(* -------------------------- program constants -------------------------- *)
SourceLimit == 5     \* actual_sources[:5]
QueryLimit == 2      \* search_queries[:2]
StepLimit == 100     \* db.get_steps(running_task.run_id, limit=100)

Callers == 1..NCallers
Tids == 1..MaxThreads
NoThread == 0
Jobs == 1..MaxJobs     \* job ids, in the order analyze makes them
RunIds == {"r1"}
NoneId == "None"     \* run_id = None, the default of run_async
Keys == RunIds \cup {NoneId}
Free == <<"free", 0>>
Terminal == {"completed", "failed", "cancelled"}

VARIABLES
  active_runs,      \* WorkflowRunner._active_runs: key -> Thread (NoThread: no entry)
  cancelled_flags,  \* WorkflowRunner._cancelled_flags: key -> "absent" | "false" | "true"
  lock,             \* WorkflowRunner._lock: Free or its holder
  th_state,         \* Thread: "unborn" | "created" | "alive" | "dead"
  th_rid,           \* the run_id the Thread was created for
  th_kind,          \* "run" (_run_workflow_wrapper) | "update" (_run_update_wrapper)
  th_rs,            \* the run_state argument: "own" | "global" | "none"
  th_args,          \* [query, K]: whether a query was given, the concurrency
  pc,               \* the Thread's position in its target
  loc,              \* the target's local variables
  ctx,              \* run_id_ctx of the Thread's context ("unset" before set)
  rstatus,          \* status of the run_state object passed with th_rs = "own"
  emitted,          \* history: the events the Thread handed to _send_event
  handled,          \* history: times the top-level InterruptedError handler ran
  accepted,         \* history: the Thread's Stage when cancel first returned True
  cl,               \* calling threads: [pc, op, rid, tid, res]
  bridge,           \* DashboardCallback: [enabled, sink, loop]: _enabled, the run whose
                    \* async_broadcast _broadcast_func is (0: None), whether _loop is set
  sending,          \* _send_event calls in progress, the enable or disable call in
                    \* progress, and the history of how each _send_event call ended
  loopq,            \* coroutines scheduled on the loop by run_coroutine_threadsafe
  cache,            \* the global RunState of server.py; alias names the Thread whose
                    \* analyzed_signals list run_state.signals is (line 566)
  bcast,            \* RunState.broadcast coroutines suspended in their fan-out loop
  db_runs,          \* table dashboard_runs; the run_id is the row's position
  db_steps,         \* table dashboard_steps
  ws,               \* websocket clients: [st, init, inbox, snap, epoch, failed]
  host,             \* execute_workflow coroutines, one per started run
  published,        \* history: the events async_broadcast applied since the last reset
  jobs,             \* skill server: the jobs dict, job id -> [status, result, error]
  task,             \* skill server: run_workflow_task of each job: [pc, update_from]
  polled            \* history: the last get_status response for each job id

regVars == <<active_runs, cancelled_flags, lock>>
thVars == <<th_state, th_rid, th_kind, th_rs, th_args, pc, loc, ctx, rstatus, emitted,
           handled, accepted>>
skillVars == <<jobs, task, polled>>
hostVars == <<skillVars, bridge, sending, loopq, cache, bcast, db_runs, db_steps, ws, host, published>>
vars == <<active_runs, cancelled_flags, lock, th_state, th_rid, th_kind, th_rs,
          th_args, pc, loc, ctx, rstatus, emitted, handled, accepted, cl, bridge, sending,
          loopq, cache, bcast, db_runs, db_steps, ws, host, published, jobs, task, polled>>

(* ------------------------------ helpers -------------------------------- *)
\* skill server: jobs = {} (line 74), no background task, no status request yet
NoJobs ==
  /\ jobs = [j \in Jobs |-> [status |-> "absent", result |-> "none", error |-> "none"]]
  /\ task = [j \in Jobs |-> [pc |-> "none", update_from |-> FALSE]]
  /\ polled = [j \in Jobs |-> [status |-> "unasked", result |-> "none", error |-> "none"]]

\* no _send_event, enable or disable call is in progress and none has ended
SendingIdle ==
  [call |-> [t \in Tids |-> [pc |-> "idle", n |-> 0, type |-> "none", func |-> 0]],
   switch |-> "idle", log |-> <<>>]

Min(a, b) == IF a < b THEN a ELSE b

Range(s) == {s[k] : k \in 1..Len(s)}

\* an event handed to _send_event: its type and payload; c is the source line of the
\* cb.step call, which stands for the step's content
Ev(type, a, b) == [type |-> type, a |-> a, b |-> b, c |-> 0]
PhaseEv(name, pct) == Ev("progress", name, pct)
StepEv(stype, agent, line) == [type |-> "step", a |-> stype, b |-> agent, c |-> line]

Loc0 ==
  [i |-> 0, nsrc |-> 0, nq |-> 0, specific |-> FALSE, nsearch |-> 0, nraw |-> 0,
   total |-> 0, outc |-> <<>>, fut |-> <<>>, analyzed |-> <<>>, ccount |-> 0,
   report_calls |-> 0, saved |-> <<>>, short |-> {}, fetched |-> <<>>]

IsRunning(rid) ==
  /\ active_runs[rid] # NoThread
  /\ th_state[active_runs[rid]] = "alive"

IsRunningAny == \E k \in Keys : active_runs[k] # NoThread

IsCancelled(rid) == cancelled_flags[rid] = "true"


(* ----------------------- threads and their inputs ---------------------- *)
Unborn == {t \in Tids : th_state[t] = "unborn"}

\* threading.Thread(...): the next Thread object
NewTid == CHOOSE t \in Unborn : \A u \in Unborn : t <= u

\* callers inside a start that have not created their Thread yet
PreAlloc == {c \in Callers : cl[c].pc \in {"ra_in", "ra_alive", "ra_flag", "ua_in", "ua_flag"}}

CanAllocate == Cardinality(Tids \ Unborn) + Cardinality(PreAlloc) < MaxThreads

Return(c, res) == cl' = [cl EXCEPT ![c].pc = "idle", ![c].res = res]

Goto(c, p) == cl' = [cl EXCEPT ![c].pc = p]

\* threading.Thread(target=..., args=(...), daemon=True)
CreateThread(t, rid, kind, rs, args) ==
  /\ th_state' = [th_state EXCEPT ![t] = "created"]
  /\ th_rid' = [th_rid EXCEPT ![t] = rid]
  /\ th_kind' = [th_kind EXCEPT ![t] = kind]
  /\ th_rs' = [th_rs EXCEPT ![t] = rs]
  /\ th_args' = [th_args EXCEPT ![t] = args]
  /\ UNCHANGED <<pc, loc, ctx, rstatus, emitted, handled, accepted>>

\* Thread.start()
StartThread(t) ==
  /\ th_state' = [th_state EXCEPT ![t] = "alive"]
  /\ pc' = [pc EXCEPT ![t] = "wrap"]
  /\ UNCHANGED <<th_rid, th_kind, th_rs, th_args, loc, ctx, rstatus, emitted, handled,
                 accepted>>

(* ------------------- WorkflowRunner.run_async (115-138) ----------------- *)
CallRunAsync(c, rid) ==
  /\ cl[c].pc = "idle"
  /\ CanAllocate
  /\ cl' = [cl EXCEPT ![c] = [pc |-> "ra_in", op |-> "run_async", rid |-> rid,
                              tid |-> NoThread, res |-> "none"]]
  /\ UNCHANGED <<regVars, thVars, hostVars>>

\* line 126, left operand: run_id in self._active_runs
RunAsyncIn(c) ==
  /\ cl[c].pc = "ra_in"
  /\ IF active_runs[cl[c].rid] # NoThread THEN Goto(c, "ra_alive") ELSE Goto(c, "ra_flag")
  /\ UNCHANGED <<regVars, thVars, hostVars>>

\* line 126, right operand: self._active_runs[run_id].is_alive(); line 127
RunAsyncAliveNoCheck(c) ==
  /\ cl[c].pc = "ra_alive"
  /\ IF active_runs[cl[c].rid] = NoThread THEN Return(c, "KeyError") ELSE Goto(c, "ra_flag")
  /\ UNCHANGED <<regVars, thVars, hostVars>>

RunAsyncAlive(c) ==
  /\ cl[c].pc = "ra_alive"
  /\ IF active_runs[cl[c].rid] = NoThread
       THEN Return(c, "KeyError")
       ELSE IF th_state[active_runs[cl[c].rid]] = "alive"
              THEN Return(c, "RuntimeError")
              ELSE Goto(c, "ra_flag")
  /\ UNCHANGED <<regVars, thVars, hostVars>>

\* lines 129-135: the flag is cleared and the Thread object created, outside the lock
RunAsyncFlag(c, rs, args) ==
  /\ cl[c].pc = "ra_flag"
  /\ cancelled_flags' = [cancelled_flags EXCEPT ![cl[c].rid] = "false"]
  /\ CreateThread(NewTid, cl[c].rid, "run", rs, args)
  /\ cl' = [cl EXCEPT ![c].pc = "ra_acq", ![c].tid = NewTid]
  /\ UNCHANGED <<active_runs, lock, hostVars>>

\* line 136: with self._lock
RunAsyncAcquire(c) ==
  /\ cl[c].pc = "ra_acq"
  /\ lock = Free
  /\ lock' = <<"caller", c>>
  /\ Goto(c, "ra_reg")
  /\ UNCHANGED <<active_runs, cancelled_flags, thVars, hostVars>>

\* the Thread is registered and started with the lock still held
RunAsyncRegisterKeepsLock(c) ==
  /\ cl[c].pc = "ra_reg"
  /\ active_runs' = [active_runs EXCEPT ![cl[c].rid] = cl[c].tid]
  /\ Goto(c, "ra_start")
  /\ UNCHANGED <<lock, cancelled_flags, thVars, hostVars>>

\* line 137 and the end of the with block
RunAsyncRegister(c) ==
  /\ cl[c].pc = "ra_reg"
  /\ active_runs' = [active_runs EXCEPT ![cl[c].rid] = cl[c].tid]
  /\ lock' = Free
  /\ Goto(c, "ra_start")
  /\ UNCHANGED <<cancelled_flags, thVars, hostVars>>

\* line 138: thread.start()
RunAsyncStart(c) ==
  /\ cl[c].pc = "ra_start"
  /\ StartThread(cl[c].tid)
  /\ Return(c, "ok")
  /\ UNCHANGED <<regVars, hostVars>>

\* line 138: thread.start() raises RuntimeError (the interpreter cannot start another
\* thread); the Thread stays registered and is never alive
RunAsyncStartFails(c) ==
  /\ cl[c].pc = "ra_start"
  /\ Return(c, "RuntimeError")
  /\ UNCHANGED <<regVars, thVars, hostVars>>

(* --------------- WorkflowRunner.update_run_async (140-163) -------------- *)
CallUpdateRunAsync(c, rid) ==
  /\ cl[c].pc = "idle"
  /\ CanAllocate
  /\ cl' = [cl EXCEPT ![c] = [pc |-> "ua_in", op |-> "update_run_async", rid |-> rid,
                              tid |-> NoThread, res |-> "none"]]
  /\ UNCHANGED <<regVars, thVars, hostVars>>

\* lines 148-152
UpdateRunAsyncCheckResets(c) ==
  /\ cl[c].pc = "ua_in"
  /\ IF cl[c].rid = NoneId
       THEN Return(c, "ValueError") /\ UNCHANGED regVars
       ELSE IF active_runs[cl[c].rid] # NoThread
              THEN /\ Return(c, "RuntimeError")
                   /\ cancelled_flags' = [cancelled_flags EXCEPT ![cl[c].rid] = "false"]
                   /\ UNCHANGED <<active_runs, lock>>
              ELSE Goto(c, "ua_flag") /\ UNCHANGED regVars
  /\ UNCHANGED <<thVars, hostVars>>

UpdateRunAsyncCheck(c) ==
  /\ cl[c].pc = "ua_in"
  /\ IF cl[c].rid = NoneId
       THEN Return(c, "ValueError")
       ELSE IF active_runs[cl[c].rid] # NoThread
              THEN Return(c, "RuntimeError")
              ELSE Goto(c, "ua_flag")
  /\ UNCHANGED <<regVars, thVars, hostVars>>

\* lines 154-160
UpdateRunAsyncFlag(c, rs) ==
  /\ cl[c].pc = "ua_flag"
  /\ cancelled_flags' = [cancelled_flags EXCEPT ![cl[c].rid] = "false"]
  /\ CreateThread(NewTid, cl[c].rid, "update", rs, [query |-> FALSE, K |-> 1])
  /\ cl' = [cl EXCEPT ![c].pc = "ua_acq", ![c].tid = NewTid]
  /\ UNCHANGED <<active_runs, lock, hostVars>>

\* line 161
UpdateRunAsyncAcquire(c) ==
  /\ cl[c].pc = "ua_acq"
  /\ lock = Free
  /\ lock' = <<"caller", c>>
  /\ Goto(c, "ua_reg")
  /\ UNCHANGED <<active_runs, cancelled_flags, thVars, hostVars>>

\* line 162 and the end of the with block
UpdateRunAsyncRegister(c) ==
  /\ cl[c].pc = "ua_reg"
  /\ active_runs' = [active_runs EXCEPT ![cl[c].rid] = cl[c].tid]
  /\ lock' = Free
  /\ Goto(c, "ua_start")
  /\ UNCHANGED <<cancelled_flags, thVars, hostVars>>

\* line 163
UpdateRunAsyncStart(c) ==
  /\ cl[c].pc = "ua_start"
  /\ StartThread(cl[c].tid)
  /\ Return(c, "ok")
  /\ UNCHANGED <<regVars, hostVars>>

(* --------------------- WorkflowRunner.cancel (108-113) ------------------ *)
CallCancel(c, rid) ==
  /\ cl[c].pc = "idle"
  /\ cl' = [cl EXCEPT ![c] = [pc |-> "cn_in", op |-> "cancel", rid |-> rid,
                              tid |-> NoThread, res |-> "none"]]
  /\ UNCHANGED <<regVars, thVars, hostVars>>

\* line 109 (and 113)
CancelInAlways(c) ==
  /\ cl[c].pc = "cn_in"
  /\ Goto(c, "cn_set")
  /\ UNCHANGED <<regVars, thVars, hostVars>>

\* cl[c].tid keeps the handle the membership test found
CancelIn(c) ==
  /\ cl[c].pc = "cn_in"
  /\ IF active_runs[cl[c].rid] # NoThread
       THEN cl' = [cl EXCEPT ![c].pc = "cn_set", ![c].tid = active_runs[cl[c].rid]]
       ELSE Return(c, "false")
  /\ UNCHANGED <<regVars, thVars, hostVars>>

\* how far the Thread has come: not started, before the first line of its target,
\* inside the as_completed loop of the parallel analysis with a result still to be
\* retrieved, elsewhere in the target, or past the target
Stage(t) ==
  CASE th_state[t] # "alive" -> "not_alive"
    [] pc[t] = "wrap" -> "entering"
    [] pc[t] = "wf_par" /\ \E k \in 1..Len(loc[t].fut) : loc[t].fut[k] # "collected"
         -> "parallel"
    [] pc[t] \in {"cl_acq", "cl_pop_run", "cl_pop_flag", "done"} -> "returned"
    [] OTHER -> "inside"

\* lines 110-112
CancelSet(c) ==
  /\ cl[c].pc = "cn_set"
  /\ cancelled_flags' = [cancelled_flags EXCEPT ![cl[c].rid] = "true"]
  /\ cl' = [cl EXCEPT ![c].pc = "idle", ![c].res = "true", ![c].tid = NoThread]
  /\ accepted' = IF active_runs[cl[c].rid] # NoThread
                   THEN [accepted EXCEPT ![active_runs[cl[c].rid]] =
                           IF @ = "none" THEN Stage(active_runs[cl[c].rid]) ELSE @]
                   ELSE accepted
  /\ UNCHANGED <<active_runs, lock, th_state, th_rid, th_kind, th_rs, th_args, pc, loc,
                 ctx, rstatus, emitted, handled, hostVars>>


(* ------------------ DashboardCallback._send_event (36-51) --------------- *)
\* one scheduled coroutine self._broadcast_func({"type": ..., "data": ...}); the
\* run_id of the caller's context is injected into data when it is truthy
Scheduled(t, e) ==
  [ev |-> e, rid |-> IF ctx[t] \in RunIds THEN ctx[t] ELSE "absent", sink |-> bridge.sink,
   by |-> t]

Send(t, evs) ==
  /\ emitted' = [emitted EXCEPT ![t] = @ \o evs]
  /\ loopq' = IF bridge.enabled
                THEN loopq \o [k \in 1..Len(evs) |-> Scheduled(t, evs[k])]
                ELSE loopq

\* run_state.status = s, guarded by "if run_state:"
SetStatus(t, s) ==
  CASE th_rs[t] = "own" -> rstatus' = [rstatus EXCEPT ![t] = s] /\ UNCHANGED cache
    [] th_rs[t] = "global" -> cache' = [cache EXCEPT !.status = s] /\ UNCHANGED rstatus
    [] OTHER -> UNCHANGED <<rstatus, cache>>

workerFrame == <<active_runs, cancelled_flags, lock, th_state, th_rid, th_kind, th_rs,
                 th_args, ctx, accepted, cl, skillVars, bridge, sending, bcast, db_runs, db_steps, ws, host,
                 published>>

\* the target goes on at position p with locals l, having emitted evs
Step(t, p, l, evs) ==
  /\ pc' = [pc EXCEPT ![t] = p]
  /\ loc' = [loc EXCEPT ![t] = l]
  /\ Send(t, evs)
  /\ UNCHANGED <<rstatus, cache, handled, workerFrame>>

\* the target returns with run_state.status = st; the wrapper's finally comes next
Exit(t, l, evs, st, h) ==
  /\ pc' = [pc EXCEPT ![t] = "cl_acq"]
  /\ loc' = [loc EXCEPT ![t] = l]
  /\ Send(t, evs)
  /\ SetStatus(t, st)
  /\ handled' = [handled EXCEPT ![t] = @ + h]
  /\ UNCHANGED workerFrame

\* check_cancelled (202-206) raised outside every inner try: lines 616-620
OnInterrupted(t, l, evs) ==
  Exit(t, l, evs \o <<StepEv("warning", "System", 205), StepEv("warning", "System", 618)>>,
       "cancelled", 1)

\* an exception outside every inner try: lines 622-625
OnException(t, l, evs) ==
  Exit(t, l, evs \o <<StepEv("error", "System", 623)>>, "failed", 0)

EarlyExitFailed(t, l, evs, line) ==
  Exit(t, l, evs \o <<PhaseEv("done", 100), StepEv("warning", "System", line)>>,
       "failed", 0)

\* the three early exits (313-319, 331-337, 556-562)
EarlyExit(t, l, evs, line) ==
  Exit(t, l, evs \o <<PhaseEv("done", 100), StepEv("warning", "System", line)>>,
       "completed", 0)

MyFlag(t) == IsCancelled(th_rid[t])

(* ------------- WorkflowRunner._run_workflow_wrapper (165-169) ----------- *)
Wrap(t) ==
  /\ th_state[t] = "alive"
  /\ pc[t] = "wrap"
  /\ ctx' = [ctx EXCEPT ![t] = th_rid[t]]
  /\ pc' = [pc EXCEPT ![t] = IF th_kind[t] = "run" THEN "wf_init" ELSE "up_init"]
  /\ UNCHANGED <<regVars, th_state, th_rid, th_kind, th_rs, th_args, loc, rstatus,
                 emitted, handled, accepted, cl, hostVars>>

(* ------------------ WorkflowRunner._run_workflow (188-629) -------------- *)
\* Step 0, lines 208-217
InitEvents ==
  <<PhaseEv("init", 5), StepEv("system", "System", 212), StepEv("config", "System", 213),
    StepEv("config", "System", 214)>>

WfInit(t) ==
  /\ pc[t] = "wf_init"
  /\ IF MyFlag(t)
       THEN OnInterrupted(t, loc[t], <<>>)
       ELSE \/ Step(t, "wf_intent", loc[t], InitEvents)
            \/ OnException(t, loc[t], InitEvents)      \* _ensure_workflow raises

\* lines 219-251: intent analysis, resolution of the sources
IntentResults(t, maxq) ==
  IF th_args[t].query
    THEN {[nq |-> n, specific |-> sp,
           evs |-> <<StepEv("thought", "IntentAgent", 226), StepEv("result", "IntentAgent", 233),
                     StepEv("result", "IntentAgent", 234)>>] : n \in 0..maxq, sp \in BOOLEAN}
         \cup {[nq |-> 1, specific |-> FALSE,
                evs |-> <<StepEv("thought", "IntentAgent", 226), w>>]
               : w \in {StepEv("warning", "IntentAgent", 236),
                        StepEv("error", "IntentAgent", 239)}}
    ELSE {[nq |-> 0, specific |-> FALSE, evs |-> <<>>]}

WfIntent(t, maxq, maxsrc) ==
  /\ pc[t] = "wf_intent"
  /\ \E r \in IntentResults(t, maxq), ns \in 0..maxsrc :
       Step(t, "wf_fetch",
            [loc[t] EXCEPT !.nq = r.nq, !.specific = r.specific,
                           !.nsrc = Min(ns, SourceLimit), !.i = 0],
            <<PhaseEv("discovery", 10), StepEv("phase", "System", 221)>> \o r.evs
              \o <<PhaseEv("fetch", 15)>>)

\* lines 253-264: one iteration of the fetch loop
WfFetch(t) ==
  /\ pc[t] = "wf_fetch"
  /\ loc[t].i < loc[t].nsrc
  /\ IF MyFlag(t)
       THEN OnInterrupted(t, loc[t], <<>>)
       ELSE \E r \in {StepEv("result", "TrendAgent", 260),
                       StepEv("result", "TrendAgent", 262),
                       StepEv("error", "TrendAgent", 264)} :
              Step(t, "wf_fetch", [loc[t] EXCEPT !.i = @ + 1],
                   <<StepEv("tool_call", "TrendAgent", 255), r>>)

\* lines 266-274: whether the active search runs
WfSearchEnter(t) ==
  /\ pc[t] = "wf_fetch"
  /\ loc[t].i = loc[t].nsrc
  /\ IF th_args[t].query /\ (loc[t].specific \/ loc[t].nq > 0)
       THEN Step(t, "wf_search", [loc[t] EXCEPT !.i = 0],
                 <<PhaseEv("search", 22), StepEv("thought", "TrendAgent", 274)>>)
       ELSE Step(t, "wf_sentiment", loc[t], <<>>)

\* lines 276-293: one iteration of the search loop
WfSearch(t, maxres) ==
  /\ pc[t] = "wf_search"
  /\ loc[t].i < Min(loc[t].nq, QueryLimit)
  /\ IF MyFlag(t)
       THEN OnInterrupted(t, loc[t], <<>>)
       ELSE \/ \E n \in 0..maxres :
                 Step(t, "wf_search", [loc[t] EXCEPT !.i = @ + 1, !.nsearch = @ + n],
                      <<StepEv("tool_call", "TrendAgent", 278), StepEv("result", "TrendAgent", 291)>>)
            \/ Step(t, "wf_search", [loc[t] EXCEPT !.i = @ + 1],
                    <<StepEv("tool_call", "TrendAgent", 278), StepEv("error", "TrendAgent", 293)>>)

\* line 295, then lines 297-304: sentiment refresh
WfSentiment(t) ==
  /\ \/ pc[t] = "wf_sentiment"
     \/ pc[t] = "wf_search" /\ loc[t].i = Min(loc[t].nq, QueryLimit)
  /\ \E r \in {StepEv("result", "TrendAgent", 302), StepEv("error", "TrendAgent", 304)} :
       Step(t, "wf_merge", loc[t],
            (IF pc[t] = "wf_search" THEN <<StepEv("result", "TrendAgent", 295)>> ELSE <<>>)
              \o <<PhaseEv("sentiment", 28), StepEv("tool_call", "TrendAgent", 299), r>>)

\* lines 306-319: the stored backlog is read and merged
WfMerge(t, maxdb) ==
  /\ pc[t] = "wf_merge"
  /\ \/ OnException(t, loc[t], <<>>)                   \* get_daily_news raises
     \/ \E nd \in 0..maxdb :
          LET l == [loc[t] EXCEPT !.nraw = loc[t].nsearch + nd]
              evs == <<StepEv("thought", "TrendAgent", 311)>>
          IN  IF l.nraw = 0 THEN EarlyExit(t, l, evs, 315) ELSE Step(t, "wf_filter", l, evs)


\* what one analysis call yields: a signal object, None, or an exception; loc.saved
\* lists the items handed to workflow.db.save_signal (460, 548)
Outcomes == {"ok", "none", "exc"}

\* what follows a signal: no ticker and no chain; a chart and a graph; an exception
\* of _build_graph or save_signal
Effects == {"plain", "full", "exc"}

\* 50 + int(c / total * 25)
ItemProgress(c, total) == 50 + ((c * 25) \div total)

\* lines 321-344: LLM filter; on success the analysis phase is announced. loc.short
\* is the set of the returned items that have a url and less than 50 characters of
\* content: the items for which fetch_news_content is called (356, 378, 477);
\* loc.fetched lists those calls
WfFilter(t, maxitems, maxshort) ==
  /\ pc[t] = "wf_filter"
  /\ LET evs == <<PhaseEv("filter", 35), StepEv("thought", "TrendAgent", 323)>>
     IN  \/ OnException(t, loc[t], evs)                \* _llm_filter_signals raises
         \/ \E n \in 0..Min(loc[t].nraw, maxitems) : \E o \in [1..n -> Outcomes] :
            \E sh \in SUBSET (1..Min(n, maxshort)) :
              LET l == [loc[t] EXCEPT !.total = n, !.outc = o, !.i = 0, !.analyzed = <<>>,
                                      !.short = sh]
                  shown == [k \in 1..Min(n, 5) |-> StepEv("signal", "TrendAgent", 329)]
                  evs2 == evs \o <<StepEv("result", "TrendAgent", 326)>> \o shown
              IN  IF n = 0
                    THEN EarlyExit(t, l, evs2, 333)
                    ELSE Step(t, "wf_preloop", l,
                              evs2 \o <<PhaseEv("analysis", 50), StepEv("phase", "System", 341)>>)

\* lines 346-361: the loop that precedes the executor
WfPreloop(t) ==
  /\ pc[t] = "wf_preloop"
  /\ loc[t].i < loc[t].total
  /\ IF MyFlag(t)
       THEN OnInterrupted(t, loc[t], <<>>)
       ELSE Step(t, "wf_preloop",
                 [loc[t] EXCEPT !.i = @ + 1,
                                !.fetched = IF loc[t].i + 1 \in loc[t].short
                                              THEN Append(@, loc[t].i + 1) ELSE @],
                 <<PhaseEv("item", ItemProgress(loc[t].i + 1, loc[t].total)),
                   StepEv("thought", "FinAgent", 352)>>)

\* line 403 / 465: the branch on concurrency; lines 404-406 submit every item
WfAnalysisEnter(t) ==
  /\ pc[t] = "wf_preloop"
  /\ loc[t].i = loc[t].total
  /\ IF th_args[t].K > 1
       THEN Step(t, "wf_par",
                 [loc[t] EXCEPT !.fut = [k \in 1..loc[t].total |-> "queued"], !.ccount = 0],
                 <<StepEv("status", "System", 404)>>)
       ELSE Step(t, "wf_seq_a", [loc[t] EXCEPT !.i = 0], <<>>)

Running(t) == {k \in 1..Len(loc[t].fut) : loc[t].fut[k] = "running"}
Queued(t) == {k \in 1..Len(loc[t].fut) : loc[t].fut[k] = "queued"}

\* ThreadPoolExecutor(max_workers=K): a free worker takes the oldest queued item and
\* enters analyze_single_signal_integration (366-401)
PoolStartUnbounded(t, k) ==
  /\ pc[t] = "wf_par"
  /\ k \in Queued(t)
  /\ \A j \in Queued(t) : k <= j
  /\ Step(t, "wf_par", [loc[t] EXCEPT !.fut[k] = "running"], <<>>)

PoolStart(t, k) ==
  /\ pc[t] = "wf_par"
  /\ k \in Queued(t)
  /\ \A j \in Queued(t) : k <= j
  /\ Cardinality(Running(t)) < th_args[t].K
  /\ Step(t, "wf_par",
          [loc[t] EXCEPT !.fut[k] = "running",
                         !.fetched = IF k \in loc[t].short THEN Append(@, k) ELSE @],
          <<>>)

\* analyze_single_signal_integration returns: the future is done
PoolFinish(t, k) ==
  /\ pc[t] = "wf_par"
  /\ k \in Running(t)
  /\ Step(t, "wf_par", [loc[t] EXCEPT !.fut[k] = "done"], <<>>)

\* what the aggregation emits for a signal (parallel: 420-460)
ParEffects(k, fx) ==
  <<Ev("signal", k, 0), StepEv("signal", "FinAgent", 424)>>
    \o (CASE fx = "full" -> <<Ev("chart", "T1", k), Ev("graph", k, 0)>>
          [] fx = "exc" -> <<StepEv("error", "FinAgent", 463)>>
          [] OTHER -> <<>>)

WfParCollectAppendLast(t, k) ==
  /\ pc[t] = "wf_par"
  /\ k \in 1..Len(loc[t].fut)
  /\ loc[t].fut[k] = "done"
  /\ IF MyFlag(t)
       THEN Step(t, "wf_par", [loc[t] EXCEPT !.fut[k] = "collected"],
                 <<StepEv("warning", "System", 205), StepEv("error", "FinAgent", 463)>>)
       ELSE LET c == loc[t].ccount + 1
                l == [loc[t] EXCEPT !.fut[k] = "collected", !.ccount = c]
                p == <<PhaseEv("item", ItemProgress(c, loc[t].total))>>
            IN  IF loc[t].outc[k] = "ok"
                  THEN \E fx \in Effects :
                         Step(t, "wf_par",
                              IF fx = "exc" THEN l ELSE [l EXCEPT !.analyzed = Append(@, k),
                                                                  !.saved = Append(@, k)],
                              p \o ParEffects(k, fx))
                  ELSE Step(t, "wf_par", l, p)

\* lines 409-463: one iteration of the as_completed loop, inside try / except Exception
WfParCollect(t, k) ==
  /\ pc[t] = "wf_par"
  /\ k \in 1..Len(loc[t].fut)
  /\ loc[t].fut[k] = "done"
  /\ IF MyFlag(t)
       THEN Step(t, "wf_par", [loc[t] EXCEPT !.fut[k] = "collected"],
                 <<StepEv("warning", "System", 205), StepEv("error", "FinAgent", 463)>>)
       ELSE LET c == loc[t].ccount + 1
                l == [loc[t] EXCEPT !.fut[k] = "collected", !.ccount = c]
                p == <<PhaseEv("item", ItemProgress(c, loc[t].total))>>
            IN  IF loc[t].outc[k] = "ok"
                  THEN \E fx \in Effects :
                         Step(t, "wf_par",
                              [l EXCEPT !.analyzed = Append(@, k),
                                        !.saved = IF fx = "exc" THEN @ ELSE Append(@, k)],
                              p \o ParEffects(k, fx))
                  ELSE Step(t, "wf_par", l, p)

\* lines 467-482: the sequential loop up to the analysis call
WfSeqA(t) ==
  /\ pc[t] = "wf_seq_a"
  /\ loc[t].i < loc[t].total
  /\ IF MyFlag(t)
       THEN OnInterrupted(t, loc[t], <<>>)
       ELSE Step(t, "wf_seq_b",
                 [loc[t] EXCEPT !.fetched = IF loc[t].i + 1 \in loc[t].short
                                              THEN Append(@, loc[t].i + 1) ELSE @],
                 <<PhaseEv("item", ItemProgress(loc[t].i + 1, loc[t].total)),
                   StepEv("thought", "FinAgent", 473)>>)

\* what the sequential loop emits for a signal (498-548)
SeqEffects(k, fx) ==
  <<Ev("signal", k, 0), StepEv("signal", "FinAgent", 506)>>
    \o (CASE fx = "full" -> <<StepEv("result", "FinAgent", 513), Ev("chart", "T1", k),
                              StepEv("thought", "FinAgent", 538), Ev("graph", k, 0)>>
          [] fx = "exc" -> <<StepEv("error", "FinAgent", 553)>>
          [] OTHER -> <<>>)

\* lines 484-553: the analysis call and its aggregation, inside try / except Exception
WfSeqBAppendsTwice(t) ==
  /\ pc[t] = "wf_seq_b"
  /\ LET k == loc[t].i + 1
         l == [loc[t] EXCEPT !.i = k]
     IN  IF MyFlag(t)
           THEN Step(t, "wf_seq_a", l,
                     <<StepEv("warning", "System", 205), StepEv("error", "FinAgent", 553)>>)
           ELSE CASE loc[t].outc[k] = "ok" ->
                       \E fx \in Effects :
                         Step(t, "wf_seq_a",
                              [l EXCEPT !.analyzed = Append(Append(@, k), k),
                                        !.saved = IF fx = "exc" THEN @ ELSE Append(@, k)],
                              SeqEffects(k, fx))
                  [] loc[t].outc[k] = "none" ->
                       Step(t, "wf_seq_a", l, <<StepEv("warning", "FinAgent", 550)>>)
                  [] OTHER ->
                       Step(t, "wf_seq_a", l, <<StepEv("error", "FinAgent", 553)>>)

WfSeqB(t) ==
  /\ pc[t] = "wf_seq_b"
  /\ LET k == loc[t].i + 1
         l == [loc[t] EXCEPT !.i = k]
     IN  IF MyFlag(t)
           THEN Step(t, "wf_seq_a", l,
                     <<StepEv("warning", "System", 205), StepEv("error", "FinAgent", 553)>>)
           ELSE CASE loc[t].outc[k] = "ok" ->
                       \E fx \in Effects :
                         Step(t, "wf_seq_a",
                              [l EXCEPT !.analyzed = Append(@, k),
                                        !.saved = IF fx = "exc" THEN @ ELSE Append(@, k)],
                              SeqEffects(k, fx))
                  [] loc[t].outc[k] = "none" ->
                       Step(t, "wf_seq_a", l, <<StepEv("warning", "FinAgent", 550)>>)
                  [] OTHER ->
                       Step(t, "wf_seq_a", l, <<StepEv("error", "FinAgent", 553)>>)


AllCollected(t) == \A k \in 1..Len(loc[t].fut) : loc[t].fut[k] = "collected"

\* lines 556-573: after the analysis phase; run_state.signals = analyzed_signals
WfPost(t) ==
  /\ \/ pc[t] = "wf_seq_a" /\ loc[t].i = loc[t].total
     \/ pc[t] = "wf_par" /\ AllCollected(t)
  /\ IF loc[t].analyzed = <<>>
       THEN EarlyExit(t, loc[t], <<>>, 558)
       ELSE /\ pc' = [pc EXCEPT ![t] = "wf_report"]
            /\ Send(t, <<PhaseEv("report", 85), StepEv("phase", "System", 570),
                         StepEv("thought", "ReportAgent", 572), StepEv("thought", "ReportAgent", 573)>>)
            /\ cache' = IF th_rs[t] = "global"
                          THEN [cache EXCEPT !.signals = loc[t].analyzed, !.alias = t]
                          ELSE cache
            /\ UNCHANGED <<loc, rstatus, handled, workerFrame>>

\* lines 608-614
FinalEvents ==
  <<PhaseEv("done", 100), StepEv("system", "System", 610), StepEv("result", "System", 611)>>

\* lines 575-606 inside try / except Exception, then 608-614. run_id[:6] (592) raises
\* TypeError when run_id is None.
WfReportIgnoresFlag(t) ==
  /\ pc[t] = "wf_report"
  /\ LET l == [loc[t] EXCEPT !.report_calls = @ + 1]
     IN  \/ /\ th_rid[t] # NoneId
            /\ Exit(t, l, <<StepEv("thought", "ReportAgent", 582),
                            StepEv("thought", "ReportAgent", 583),
                            StepEv("result", "ReportAgent", 599)>> \o FinalEvents,
                    "completed", 0)
         \/ Exit(t, l, <<StepEv("thought", "ReportAgent", 582),
                         StepEv("thought", "ReportAgent", 583),
                         StepEv("error", "ReportAgent", 606)>> \o FinalEvents,
                 "completed", 0)
         \/ Exit(t, l, <<StepEv("error", "ReportAgent", 606)>> \o FinalEvents,
                 "completed", 0)

WfReport(t) ==
  /\ pc[t] = "wf_report"
  /\ IF MyFlag(t)
       THEN Exit(t, loc[t],
                 <<StepEv("warning", "System", 205), StepEv("error", "ReportAgent", 606)>>
                   \o FinalEvents, "completed", 0)
       ELSE LET l == [loc[t] EXCEPT !.report_calls = @ + 1]
            IN  \/ /\ th_rid[t] # NoneId
                   /\ Exit(t, l, <<StepEv("thought", "ReportAgent", 582),
                                   StepEv("thought", "ReportAgent", 583),
                                   StepEv("result", "ReportAgent", 599)>> \o FinalEvents,
                           "completed", 0)
                \/ Exit(t, l, <<StepEv("thought", "ReportAgent", 582),
                                StepEv("thought", "ReportAgent", 583),
                                StepEv("error", "ReportAgent", 606)>> \o FinalEvents,
                        "completed", 0)
                \/ Exit(t, l, <<StepEv("error", "ReportAgent", 606)>> \o FinalEvents,
                        "completed", 0)                \* generate_report raises

(* -------------------- WorkflowRunner._run_update (631-678) -------------- *)
\* lines 641-649
UpInit(t) ==
  /\ pc[t] = "up_init"
  /\ LET evs == <<PhaseEv("init", 5), StepEv("system", "System", 643)>>
     IN  \/ Step(t, "up_call", loc[t],
                 evs \o <<PhaseEv("refresh", 20), StepEv("status", "System", 649)>>)
         \/ Exit(t, loc[t], evs \o <<StepEv("error", "System", 674)>>, "failed", 0)

\* lines 653-676: workflow.update_run returns an id, returns nothing, or raises
UpCall(t) ==
  /\ pc[t] = "up_call"
  /\ \/ Exit(t, loc[t], <<PhaseEv("done", 100), StepEv("status", "System", 663)>>,
             "completed", 0)
     \/ Exit(t, loc[t], <<StepEv("error", "System", 669)>>, "failed", 0)
     \/ Exit(t, loc[t], <<StepEv("error", "System", 674)>>, "failed", 0)

(* ------- the finally of _run_workflow_wrapper / _run_update_wrapper ----- *)
\* lines 171-172 (181-182): the context is reset and the lock taken
CleanupAcquire(t) ==
  /\ pc[t] = "cl_acq"
  /\ lock = Free
  /\ lock' = <<"thread", t>>
  /\ ctx' = [ctx EXCEPT ![t] = "unset"]
  /\ pc' = [pc EXCEPT ![t] = "cl_pop_run"]
  /\ UNCHANGED <<active_runs, cancelled_flags, th_state, th_rid, th_kind, th_rs, th_args,
                 loc, rstatus, emitted, handled, accepted, cl, hostVars>>

\* the wrapper's finally without the pop of the handle
CleanupPopRunKeepsEntry(t) ==
  /\ pc[t] = "cl_pop_run"
  /\ pc' = [pc EXCEPT ![t] = "cl_pop_flag"]
  /\ UNCHANGED <<active_runs, cancelled_flags, lock, th_state, th_rid, th_kind, th_rs,
                 th_args, loc, ctx, rstatus, emitted, handled, accepted, cl, hostVars>>

\* line 173 (183)
CleanupPopRun(t) ==
  /\ pc[t] = "cl_pop_run"
  /\ active_runs' = [active_runs EXCEPT ![th_rid[t]] = NoThread]
  /\ pc' = [pc EXCEPT ![t] = "cl_pop_flag"]
  /\ UNCHANGED <<cancelled_flags, lock, th_state, th_rid, th_kind, th_rs, th_args,
                 loc, ctx, rstatus, emitted, handled, accepted, cl, hostVars>>

\* line 174 (184), the end of the with block; the Thread ends
CleanupPopFlag(t) ==
  /\ pc[t] = "cl_pop_flag"
  /\ cancelled_flags' = [cancelled_flags EXCEPT ![th_rid[t]] = "absent"]
  /\ lock' = Free
  /\ pc' = [pc EXCEPT ![t] = "done"]
  /\ th_state' = [th_state EXCEPT ![t] = "dead"]
  /\ UNCHANGED <<active_runs, th_rid, th_kind, th_rs, th_args, loc, ctx, rstatus,
                 emitted, handled, accepted, cl, hostVars>>


(* ------------------------------ initial state --------------------------- *)
HostIdle ==
  /\ bridge = [enabled |-> FALSE, sink |-> 0, loop |-> FALSE]
  /\ sending = SendingIdle
  /\ NoJobs
  /\ loopq = <<>>
  /\ cache = [current_run_id |-> 0, status |-> "idle", phase |-> "", progress |-> 0,
              connections |-> <<>>, signals |-> <<>>, alias |-> NoThread, charts |-> {},
              graph |-> 0]
  /\ bcast = <<>>
  /\ db_runs = <<>>
  /\ db_steps = <<>>
  /\ ws = <<>>
  /\ host = <<>>
  /\ published = <<>>

RegistryEmpty ==
  /\ active_runs = [k \in Keys |-> NoThread]
  /\ cancelled_flags = [k \in Keys |-> "absent"]
  /\ lock = Free

NoThreads ==
  /\ th_state = [t \in Tids |-> "unborn"]
  /\ th_rid = [t \in Tids |-> NoneId]
  /\ th_kind = [t \in Tids |-> "run"]
  /\ th_rs = [t \in Tids |-> "none"]
  /\ th_args = [t \in Tids |-> [query |-> FALSE, K |-> 1]]
  /\ pc = [t \in Tids |-> "none"]
  /\ loc = [t \in Tids |-> Loc0]
  /\ ctx = [t \in Tids |-> "unset"]
  /\ rstatus = [t \in Tids |-> "running"]
  /\ emitted = [t \in Tids |-> <<>>]
  /\ handled = [t \in Tids |-> 0]
  /\ accepted = [t \in Tids |-> "none"]

CallersIdle ==
  cl = [c \in Callers |-> [pc |-> "idle", op |-> "none", rid |-> NoneId,
                           tid |-> NoThread, res |-> "none"]]

(* ----------------------------- Spec: registry --------------------------- *)
\* The calling threads start, update and cancel run "r1" concurrently. A run is
\* started without a query and with concurrency 1; its source list and the stored
\* backlog are empty, so that it ends at the first early exit (or fails, or is
\* cancelled at its first checkpoint).
Init == RegistryEmpty /\ NoThreads /\ CallersIdle /\ HostIdle

CallerNext(c) ==
  \/ \E r \in RunIds : CallRunAsync(c, r)
  \/ RunAsyncIn(c)
  \/ RunAsyncAlive(c)
  \/ RunAsyncFlag(c, "own", [query |-> FALSE, K |-> 1])
  \/ RunAsyncAcquire(c)
  \/ RunAsyncRegister(c)
  \/ RunAsyncStart(c)
  \/ \E r \in RunIds \cup {NoneId} : CallUpdateRunAsync(c, r)
  \/ UpdateRunAsyncCheck(c)
  \/ UpdateRunAsyncFlag(c, "own")
  \/ UpdateRunAsyncAcquire(c)
  \/ UpdateRunAsyncRegister(c)
  \/ UpdateRunAsyncStart(c)
  \/ \E r \in RunIds : CallCancel(c, r)
  \/ CancelIn(c)
  \/ CancelSet(c)

ThreadNext(t) ==
  \/ Wrap(t)
  \/ WfInit(t)
  \/ WfIntent(t, 0, 0)
  \/ WfSearchEnter(t)
  \/ WfSentiment(t)
  \/ WfMerge(t, 0)
  \/ UpInit(t)
  \/ UpCall(t)
  \/ CleanupAcquire(t)
  \/ CleanupPopRun(t)
  \/ CleanupPopFlag(t)

Next ==
  \/ \E c \in Callers : CallerNext(c)
  \/ \E t \in Tids : ThreadNext(t)

Spec == Init /\ [][Next]_vars

(* -------------------------- SpecOrch: one run --------------------------- *)
\* Thread 1 has just been started for run "r1" by run_async or update_run_async
\* (the state in which either returns); the calling threads only cancel.
OrchInit ==
  /\ HostIdle /\ CallersIdle
  /\ active_runs = [k \in Keys |-> IF k = "r1" THEN 1 ELSE NoThread]
  /\ cancelled_flags = [k \in Keys |-> IF k = "r1" THEN "false" ELSE "absent"]
  /\ lock = Free
  /\ th_state = [t \in Tids |-> IF t = 1 THEN "alive" ELSE "unborn"]
  /\ th_rid = [t \in Tids |-> IF t = 1 THEN "r1" ELSE NoneId]
  /\ \E kind \in {"run", "update"} : th_kind = [t \in Tids |-> IF t = 1 THEN kind ELSE "run"]
  /\ th_rs = [t \in Tids |-> IF t = 1 THEN "own" ELSE "none"]
  /\ \E q \in BOOLEAN, k \in 1..MaxK :
       th_args = [t \in Tids |-> IF t = 1 /\ th_kind[1] = "run"
                                   THEN [query |-> q, K |-> k]
                                   ELSE [query |-> FALSE, K |-> 1]]
  /\ pc = [t \in Tids |-> IF t = 1 THEN "wrap" ELSE "none"]
  /\ loc = [t \in Tids |-> Loc0]
  /\ ctx = [t \in Tids |-> "unset"]
  /\ rstatus = [t \in Tids |-> "running"]
  /\ emitted = [t \in Tids |-> <<>>]
  /\ handled = [t \in Tids |-> 0]
  /\ accepted = [t \in Tids |-> "none"]

OrchThreadNext(t) ==
  \/ Wrap(t)
  \/ WfInit(t)
  \/ WfIntent(t, MaxQueries, MaxSources)
  \/ WfFetch(t)
  \/ WfSearchEnter(t)
  \/ WfSearch(t, 1)
  \/ WfSentiment(t)
  \/ WfMerge(t, 1)
  \/ WfFilter(t, MaxItems, 0)
  \/ WfPreloop(t)
  \/ WfAnalysisEnter(t)
  \/ \E k \in 1..MaxItems : PoolStart(t, k)
  \/ \E k \in 1..MaxItems : PoolFinish(t, k)
  \/ \E k \in 1..MaxItems : WfParCollect(t, k)
  \/ WfSeqA(t)
  \/ WfSeqB(t)
  \/ WfPost(t)
  \/ WfReport(t)
  \/ UpInit(t)
  \/ UpCall(t)
  \/ CleanupAcquire(t)
  \/ CleanupPopRun(t)
  \/ CleanupPopFlag(t)

OrchNext ==
  \/ CallCancel(1, "r1")
  \/ CancelIn(1)
  \/ CancelSet(1)
  \/ OrchThreadNext(1)

SpecOrch == OrchInit /\ [][OrchNext]_vars


(* ------------------ SpecPool: more items than workers ------------------- *)
\* One standard run without a query and without sources, whose filter may return more
\* items than the pool has workers; cancel may be called at any moment.
PoolInit == OrchInit /\ th_kind[1] = "run" /\ ~th_args[1].query

PoolThreadNext(t) ==
  \/ Wrap(t)
  \/ WfInit(t)
  \/ WfIntent(t, 0, 0)
  \/ WfSearchEnter(t)
  \/ WfSentiment(t)
  \/ WfMerge(t, MaxPoolItems)
  \/ WfFilter(t, MaxPoolItems, MaxShort)
  \/ WfPreloop(t)
  \/ WfAnalysisEnter(t)
  \/ \E k \in 1..MaxPoolItems : PoolStart(t, k)
  \/ \E k \in 1..MaxPoolItems : PoolFinish(t, k)
  \/ \E k \in 1..MaxPoolItems : WfParCollect(t, k)
  \/ WfSeqA(t)
  \/ WfSeqB(t)
  \/ WfPost(t)
  \/ WfReport(t)
  \/ CleanupAcquire(t)
  \/ CleanupPopRun(t)
  \/ CleanupPopFlag(t)

PoolNext ==
  \/ CallCancel(1, "r1")
  \/ CancelIn(1)
  \/ CancelSet(1)
  \/ PoolThreadNext(1)

SpecPool == PoolInit /\ [][PoolNext]_vars

(* ----------------------- SpecHost: dashboard server --------------------- *)
Clients == 1..NClients

\* the event loop runs one coroutine at a time: while it is inside run_async (called
\* by execute_workflow as caller 1) nothing else runs on it
LoopFree == cl[1].pc = "idle"

\* db.get_running_task (204-213): the latest row with status running, 0 if none
RunningTask ==
  IF \E r \in DOMAIN db_runs : db_runs[r].status = "running"
    THEN CHOOSE r \in DOMAIN db_runs :
           /\ db_runs[r].status = "running"
           /\ \A q \in DOMAIN db_runs : db_runs[q].status = "running" => q <= r
    ELSE 0

\* the last n elements of a sequence
LastN(sq, n) == IF Len(sq) <= n THEN sq ELSE SubSeq(sq, Len(sq) - n + 1, Len(sq))

\* db.get_steps (117-125): the latest `limit` steps of a run, oldest first
GetSteps(run, limit) ==
  LET mine == SelectSeq(db_steps, LAMBDA row : row.run = run)
  IN  LastN([k \in 1..Len(mine) |-> mine[k].ev], limit)

\* run_state.charts[ticker] = data
Upsert(charts, ticker, data) ==
  {c \in charts : c.ticker # ticker} \cup {[ticker |-> ticker, data |-> data]}

\* RunState.reset (58-65)
Reset(run) ==
  [cache EXCEPT !.current_run_id = run, !.status = "running", !.phase = "initial",
                !.progress = 0, !.signals = <<>>, !.alias = NoThread, !.charts = {},
                !.graph = 0]

\* await ws.send_json(message) (line 49): the message reaches an open socket; on a
\* socket whose peer is gone the call raises
SendTo(w, msg) ==
  IF ws[w].st = "open"
    THEN [ws EXCEPT ![w].inbox = Append(@, msg)]
    ELSE [ws EXCEPT ![w].failed = TRUE]

\* RunState.broadcast (44-56) up to its first suspension: the message goes to the
\* first connection at once; the coroutine is then suspended inside the loop over
\* self.connections, which it resumes in BroadcastResume. dead is dead_connections.
Broadcast(msg, owner) ==
  IF cache'.connections = <<>>
    THEN UNCHANGED <<bcast, ws>>
    ELSE LET w == cache'.connections[1]
         IN  /\ ws' = SendTo(w, msg)
             /\ bcast' = Append(bcast, [msg |-> msg, pos |-> 2, owner |-> owner,
                                        dead |-> IF ws[w].st = "open" THEN {} ELSE {w}])

\* start_run without the call of run_state.reset
StartRunWithoutReset(q) ==
  /\ LoopFree
  /\ Cardinality({r \in DOMAIN db_runs : db_runs[r].status # "deleted"}) < MaxRuns
  /\ RunningTask = 0
  /\ db_runs' = Append(db_runs, [status |-> "running", query |-> q, signal_count |-> 0,
                                 error_message |-> "none"])
  /\ published' = <<>>
  /\ host' = Append(host, [pc |-> "created", query |-> q])
  /\ UNCHANGED <<skillVars, sending, regVars, thVars, cl, bridge, loopq, cache, bcast, db_steps, ws>>

\* start_run with a reset that also empties run_state.connections
StartRunDropsSubscribers(q) ==
  /\ LoopFree
  /\ Cardinality({r \in DOMAIN db_runs : db_runs[r].status # "deleted"}) < MaxRuns
  /\ RunningTask = 0
  /\ db_runs' = Append(db_runs, [status |-> "running", query |-> q, signal_count |-> 0,
                                 error_message |-> "none"])
  /\ cache' = [Reset(Len(db_runs) + 1) EXCEPT !.connections = <<>>]
  /\ published' = <<>>
  /\ host' = Append(host, [pc |-> "created", query |-> q])
  /\ UNCHANGED <<skillVars, sending, regVars, thVars, cl, bridge, loopq, bcast, db_steps, ws>>

\* start_run (173-200); a request made while a run is recorded as running is
\* answered 400 and changes nothing
StartRun(q) ==
  /\ LoopFree
  /\ Cardinality({r \in DOMAIN db_runs : db_runs[r].status # "deleted"}) < MaxRuns
  /\ RunningTask = 0
  /\ db_runs' = Append(db_runs, [status |-> "running", query |-> q, signal_count |-> 0,
                                 error_message |-> "none"])
  /\ cache' = Reset(Len(db_runs) + 1)
  /\ published' = <<>>
  /\ host' = Append(host, [pc |-> "created", query |-> q])
  /\ UNCHANGED <<skillVars, sending, regVars, thVars, cl, bridge, loopq, bcast, db_steps, ws>>

\* execute_workflow, lines 315-322: the bridge is enabled and run_async is entered
\* with run_state=run_state and neither run_id nor concurrency
HostBegin(r) ==
  /\ LoopFree
  /\ r \in DOMAIN host
  /\ host[r].pc = "created"
  /\ bridge' = [enabled |-> TRUE, sink |-> r, loop |-> TRUE]
  /\ cache' = [cache EXCEPT !.status = "running"]
  /\ cl' = [cl EXCEPT ![1] = [pc |-> "ra_in", op |-> "run_async", rid |-> NoneId,
                              tid |-> NoThread, res |-> "none"]]
  /\ host' = [host EXCEPT ![r].pc = "waiting"]
  /\ UNCHANGED <<skillVars, sending, regVars, thVars, loopq, bcast, db_runs, db_steps, ws, published>>

\* lines 129-135 as executed for execute_workflow
HostRunAsyncFlag ==
  \E r \in DOMAIN host :
    /\ host[r].pc = "waiting"
    /\ RunAsyncFlag(1, "global", [query |-> host[r].query, K |-> 1])

\* lines 330-349: is_running() finds the registry empty; the Run record and the run
\* state are set to completed and the completed message is broadcast
HostFinalizeAnnouncesError(r) ==
  /\ LoopFree
  /\ r \in DOMAIN host
  /\ host[r].pc = "waiting"
  /\ cl[1].res = "ok"
  /\ ~IsRunningAny
  /\ db_runs' = IF db_runs[r].status = "deleted"      \* the UPDATE matches no row
                  THEN db_runs
                  ELSE [db_runs EXCEPT ![r].status = "completed",
                                       ![r].signal_count = Len(cache.signals)]
  /\ cache' = [cache EXCEPT !.status = "completed"]
  /\ Broadcast([kind |-> "error", n |-> 0, epoch |-> r], r)
  /\ IF cache.connections = <<>>
       THEN /\ bridge' = [enabled |-> FALSE, sink |-> 0, loop |-> FALSE]
            /\ host' = [host EXCEPT ![r].pc = "done"]
       ELSE /\ host' = [host EXCEPT ![r].pc = "broadcasting"]
            /\ UNCHANGED bridge
  /\ UNCHANGED <<skillVars, sending, regVars, thVars, cl, loopq, db_steps, published>>

HostFinalize(r) ==
  /\ LoopFree
  /\ r \in DOMAIN host
  /\ host[r].pc = "waiting"
  /\ cl[1].res = "ok"
  /\ ~IsRunningAny
  /\ db_runs' = IF db_runs[r].status = "deleted"      \* the UPDATE matches no row
                  THEN db_runs
                  ELSE [db_runs EXCEPT ![r].status = "completed",
                                       ![r].signal_count = Len(cache.signals)]
  /\ cache' = [cache EXCEPT !.status = "completed"]
  /\ Broadcast([kind |-> "completed", n |-> Len(cache.signals), epoch |-> r], r)
  /\ IF cache.connections = <<>>
       THEN /\ bridge' = [enabled |-> FALSE, sink |-> 0, loop |-> FALSE]      \* line 366
            /\ host' = [host EXCEPT ![r].pc = "done"]
       ELSE /\ host' = [host EXCEPT ![r].pc = "broadcasting"]
            /\ UNCHANGED bridge
  /\ UNCHANGED <<skillVars, sending, regVars, thVars, cl, loopq, db_steps, published>>

\* lines 351-366: run_async raised; the Run record and the run state are set to
\* failed, the message of the exception is stored and the error message is broadcast
HostExcept(r) ==
  /\ LoopFree
  /\ r \in DOMAIN host
  /\ host[r].pc = "waiting"
  /\ cl[1].res # "ok"
  /\ db_runs' = IF db_runs[r].status = "deleted"      \* the UPDATE matches no row
                  THEN db_runs
                  ELSE [db_runs EXCEPT ![r].status = "failed", ![r].error_message = "set"]
  /\ cache' = [cache EXCEPT !.status = "failed"]
  /\ Broadcast([kind |-> "error", n |-> 0, epoch |-> r], r)
  /\ IF cache.connections = <<>>
       THEN /\ bridge' = [enabled |-> FALSE, sink |-> 0, loop |-> FALSE]      \* line 366
            /\ host' = [host EXCEPT ![r].pc = "done"]
       ELSE /\ host' = [host EXCEPT ![r].pc = "broadcasting"]
            /\ UNCHANGED bridge
  /\ UNCHANGED <<skillVars, sending, regVars, thVars, cl, loopq, db_steps, published>>

\* async_broadcast coroutines run in the order opposite to the one they were
\* scheduled in
DeliverNewestFirst ==
  /\ LoopFree
  /\ loopq # <<>>
  /\ Len(bcast) < MaxInFlight
  /\ LET m == loopq[Len(loopq)]
         e == m.ev
     IN  /\ loopq' = SubSeq(loopq, 1, Len(loopq) - 1)
         /\ published' = Append(published, e)
         /\ cache' = CASE e.type = "progress" -> [cache EXCEPT !.phase = e.a, !.progress = e.b]
                       [] e.type = "signal" -> [cache EXCEPT !.signals = Append(@, e.a)]
                       [] e.type = "chart" -> [cache EXCEPT !.charts = Upsert(@, e.a, e.b)]
                       [] e.type = "graph" -> [cache EXCEPT !.graph = e.a]
                       [] OTHER -> cache
         /\ db_steps' = IF e.type = "step"
                          THEN Append(db_steps, [run |-> m.sink, ev |-> e])
                          ELSE db_steps
         /\ loc' = IF e.type = "signal" /\ cache.alias # NoThread
                     THEN [loc EXCEPT ![cache.alias].analyzed = Append(@, e.a)]
                     ELSE loc
         /\ Broadcast([kind |-> "event", n |-> Len(published) + 1,
                       epoch |-> Len(db_runs)], 0)
  /\ UNCHANGED <<skillVars, sending, regVars, th_state, th_rid, th_kind, th_rs, th_args, pc, ctx, rstatus,
                 emitted, handled, accepted, cl, bridge, db_runs, host>>

\* async_broadcast (280-312): the oldest scheduled coroutine runs up to the first
\* suspension of its broadcast
DeliverKeepsPhase ==
  /\ LoopFree
  /\ loopq # <<>>
  /\ Len(bcast) < MaxInFlight
  /\ LET m == Head(loopq)
         e == m.ev
     IN  /\ loopq' = Tail(loopq)
         /\ published' = Append(published, e)
         /\ cache' = CASE e.type = "progress" -> [cache EXCEPT !.progress = e.b]
                       [] e.type = "signal" -> [cache EXCEPT !.signals = Append(@, e.a)]
                       [] e.type = "chart" -> [cache EXCEPT !.charts = Upsert(@, e.a, e.b)]
                       [] e.type = "graph" -> [cache EXCEPT !.graph = e.a]
                       [] OTHER -> cache
         /\ db_steps' = IF e.type = "step"
                          THEN Append(db_steps, [run |-> m.sink, ev |-> e])
                          ELSE db_steps
         /\ loc' = IF e.type = "signal" /\ cache.alias # NoThread
                     THEN [loc EXCEPT ![cache.alias].analyzed = Append(@, e.a)]
                     ELSE loc
         /\ Broadcast([kind |-> "event", n |-> Len(published) + 1,
                       epoch |-> Len(db_runs)], 0)
  /\ UNCHANGED <<skillVars, sending, regVars, th_state, th_rid, th_kind, th_rs, th_args, pc, ctx, rstatus,
                 emitted, handled, accepted, cl, bridge, db_runs, host>>

Deliver ==
  /\ LoopFree
  /\ loopq # <<>>
  /\ Len(bcast) < MaxInFlight
  /\ LET m == Head(loopq)
         e == m.ev
     IN  /\ loopq' = Tail(loopq)
         /\ published' = Append(published, e)
         /\ cache' = CASE e.type = "progress" -> [cache EXCEPT !.phase = e.a, !.progress = e.b]
                       [] e.type = "signal" -> [cache EXCEPT !.signals = Append(@, e.a)]
                       [] e.type = "chart" -> [cache EXCEPT !.charts = Upsert(@, e.a, e.b)]
                       [] e.type = "graph" -> [cache EXCEPT !.graph = e.a]
                       [] OTHER -> cache
         /\ db_steps' = IF e.type = "step"
                          THEN Append(db_steps, [run |-> m.sink, ev |-> e])
                          ELSE db_steps
         /\ loc' = IF e.type = "signal" /\ cache.alias # NoThread
                     THEN [loc EXCEPT ![cache.alias].analyzed = Append(@, e.a)]
                     ELSE loc
         /\ Broadcast([kind |-> "event", n |-> Len(published) + 1,
                       epoch |-> Len(db_runs)], 0)
  /\ UNCHANGED <<skillVars, sending, regVars, th_state, th_rid, th_kind, th_rs, th_args, pc, ctx, rstatus,
                 emitted, handled, accepted, cl, bridge, db_runs, host>>

\* RunState.broadcast resumes: the list iterator yields the element at its index in
\* the list as it is now, or the loop ends and the connections whose send failed are
\* removed (54-56). A broadcast does not overtake an earlier one on a connection.
\* The finally of execute_workflow (366) follows its own broadcast.
BroadcastResume(i) ==
  /\ LoopFree
  /\ i \in DOMAIN bcast
  /\ \A j \in 1..(i - 1) : bcast[j].pos > bcast[i].pos
  /\ LET b == bcast[i]
     IN  IF b.pos <= Len(cache.connections)
           THEN LET w == cache.connections[b.pos]
                IN  /\ ws' = SendTo(w, b.msg)
                    /\ bcast' = [bcast EXCEPT ![i].pos = @ + 1,
                                              ![i].dead = IF ws[w].st = "open"
                                                            THEN @ ELSE @ \cup {w}]
                    /\ UNCHANGED <<bridge, host, cache>>
           ELSE /\ bcast' = [k \in 1..(Len(bcast) - 1) |->
                               IF k < i THEN bcast[k] ELSE bcast[k + 1]]
                /\ cache' = [cache EXCEPT !.connections =
                                            SelectSeq(@, LAMBDA c : c \notin b.dead)]
                /\ IF b.owner # 0
                     THEN /\ bridge' = [enabled |-> FALSE, sink |-> 0, loop |-> FALSE]
                          /\ host' = [host EXCEPT ![b.owner].pc = "done"]
                     ELSE UNCHANGED <<bridge, host>>
                /\ UNCHANGED ws
  /\ UNCHANGED <<skillVars, sending, regVars, thVars, cl, loopq, db_runs, db_steps, published>>

\* the init message of websocket_endpoint (105-132)
InitMessage ==
  IF RunningTask # 0
    THEN [run_id |-> RunningTask, status |-> db_runs[RunningTask].status,
          steps |-> GetSteps(RunningTask, StepLimit), signals |-> cache.signals,
          charts |-> cache.charts, graph |-> cache.graph]
    ELSE [run_id |-> 0, status |-> "idle", steps |-> <<>>, signals |-> <<>>,
          charts |-> {}, graph |-> 0]

\* websocket_endpoint, lines 100-132: after accept() the socket is appended to
\* run_state.connections, then the init message is built and sent
WsAttach(w) ==
  /\ LoopFree
  /\ ws[w].st = "closed"
  /\ cache' = [cache EXCEPT !.connections = Append(@, w)]
  /\ ws' = [ws EXCEPT ![w] = [st |-> "open", init |-> InitMessage,
                              inbox |-> <<[kind |-> "init", n |-> Len(published),
                                           epoch |-> Len(db_runs)]>>,
                              snap |-> Len(published), epoch |-> Len(db_runs),
                              failed |-> FALSE]]
  /\ UNCHANGED <<skillVars, sending, regVars, thVars, cl, bridge, loopq, bcast, db_runs, db_steps, host,
                 published>>

\* the peer of an attached client goes away: from now on a send to its socket raises
WsBreak(w) ==
  /\ ws[w].st = "open"
  /\ ws' = [ws EXCEPT ![w].st = "broken"]
  /\ UNCHANGED <<skillVars, sending, regVars, thVars, cl, bridge, loopq, cache, bcast, db_runs, db_steps,
                 host, published>>

\* websocket_endpoint, lines 167-169: receive_text raises WebSocketDisconnect and the
\* socket is removed from run_state.connections if it is still there
WsDisconnect(w) ==
  /\ LoopFree
  /\ ws[w].st = "broken"
  /\ ws' = [ws EXCEPT ![w].st = "gone"]
  /\ cache' = [cache EXCEPT !.connections = SelectSeq(@, LAMBDA c : c # w)]
  /\ UNCHANGED <<skillVars, sending, regVars, thVars, cl, bridge, loopq, bcast, db_runs, db_steps, host,
                 published>>

HostInit ==
  /\ RegistryEmpty /\ NoThreads /\ CallersIdle
  /\ bridge = [enabled |-> FALSE, sink |-> 0, loop |-> FALSE]
  /\ sending = SendingIdle
  /\ NoJobs
  /\ loopq = <<>>
  /\ cache = [current_run_id |-> 0, status |-> "idle", phase |-> "", progress |-> 0,
              connections |-> <<>>, signals |-> <<>>, alias |-> NoThread, charts |-> {},
              graph |-> 0]
  /\ bcast = <<>>
  /\ db_runs = <<>>
  /\ db_steps = <<>>
  /\ ws = [w \in Clients |-> [st |-> "closed", init |-> InitMessage, inbox |-> <<>>,
                              snap |-> 0, epoch |-> 0, failed |-> FALSE]]
  /\ host = <<>>
  /\ published = <<>>

\* the Thread of a dashboard run: no query, concurrency 1, run_id None; its source
\* list and the stored backlog are empty, so that it fails in step 0 or ends at the
\* first early exit
HostThreadNext(t) ==
  \/ Wrap(t)
  \/ WfInit(t)
  \/ WfIntent(t, 0, 0)
  \/ WfSearchEnter(t)
  \/ WfSentiment(t)
  \/ WfMerge(t, 0)
  \/ CleanupAcquire(t)
  \/ CleanupPopRun(t)
  \/ CleanupPopFlag(t)

HostNext ==
  \/ StartRun(FALSE)
  \/ \E r \in 1..MaxRuns : HostBegin(r)
  \/ RunAsyncIn(1)
  \/ HostRunAsyncFlag
  \/ RunAsyncAcquire(1)
  \/ RunAsyncRegister(1)
  \/ RunAsyncStart(1)
  \/ \E r \in 1..MaxRuns : HostFinalize(r)
  \/ Deliver
  \/ \E i \in 1..MaxInFlight : BroadcastResume(i)
  \/ \E w \in Clients : WsAttach(w)
  \/ \E t \in Tids : HostThreadNext(t)

SpecHost == HostInit /\ [][HostNext]_vars

(* ------------------ SpecFan: clients that come and go ------------------- *)
\* The dashboard server with clients whose connection is lost. The Thread of the run
\* fails in step 0, or is still inside the intent analysis when the behaviour ends.
FanThreadNext(t) ==
  \/ Wrap(t)
  \/ WfInit(t)
  \/ CleanupAcquire(t)
  \/ CleanupPopRun(t)
  \/ CleanupPopFlag(t)

FanNext ==
  \/ StartRun(FALSE)
  \/ \E r \in 1..MaxRuns : HostBegin(r)
  \/ RunAsyncIn(1)
  \/ HostRunAsyncFlag
  \/ RunAsyncAcquire(1)
  \/ RunAsyncRegister(1)
  \/ RunAsyncStart(1)
  \/ \E r \in 1..MaxRuns : HostFinalize(r)
  \/ Deliver
  \/ \E i \in 1..MaxInFlight : BroadcastResume(i)
  \/ \E w \in Clients : WsAttach(w)
  \/ \E w \in Clients : WsBreak(w)
  \/ \E w \in Clients : WsDisconnect(w)
  \/ \E t \in Tids : FanThreadNext(t)

SpecFan == HostInit /\ [][FanNext]_vars

(* ------------------ SpecStore: a run record is deleted ------------------ *)
\* delete_run with confirm=true (server.py 244-253, db.py 97-103): the steps of the
\* run and then its row are deleted, whatever the status of the run. The row keeps
\* its position as a tombstone, so that the ids of the later runs stay positions; a
\* request for a row that is gone deletes the steps left under its id and answers 404.
\* The task start_run created (line 197) is ahead of any later request in the queue
\* of the loop, so the handler runs after execute_workflow has reached its first await
DeleteRun(r) ==
  /\ LoopFree
  /\ \A h \in DOMAIN host : host[h].pc # "created"
  /\ r \in DOMAIN db_runs
  /\ \/ db_runs[r].status = "deleted"
     \/ Cardinality({d \in DOMAIN db_runs : db_runs[d].status = "deleted"}) < MaxDeletes
  /\ db_steps' = SelectSeq(db_steps, LAMBDA row : row.run # r)
  /\ db_runs' = [db_runs EXCEPT ![r].status = "deleted"]
  /\ UNCHANGED <<skillVars, sending, regVars, thVars, cl, bridge, loopq, cache, bcast, ws,
                 host, published>>

\* The dashboard server without clients: start_run, rerun (which is start_run with
\* the query of an old row), delete_run and the finalization of execute_workflow.
\* The Thread of a run fails in step 0 or stays inside the intent analysis.
StoreNext ==
  \/ StartRun(FALSE)
  \/ \E r \in 1..(MaxRuns + MaxDeletes) : HostBegin(r)
  \/ RunAsyncIn(1)
  \/ RunAsyncAlive(1)
  \/ HostRunAsyncFlag
  \/ RunAsyncAcquire(1)
  \/ RunAsyncRegister(1)
  \/ RunAsyncStart(1)
  \/ \E r \in 1..(MaxRuns + MaxDeletes) : HostFinalize(r)
  \/ \E r \in 1..(MaxRuns + MaxDeletes) : HostExcept(r)
  \/ \E r \in 1..(MaxRuns + MaxDeletes) : DeleteRun(r)
  \/ Deliver
  \/ \E t \in Tids : FanThreadNext(t)

SpecStore == HostInit /\ [][StoreNext]_vars

(* ---------------- SpecPub: a dashboard run with signals ----------------- *)
\* The dashboard server with a run that reads up to MaxItems items from the stored
\* backlog, keeps any number of them after the filter and analyses them one after the
\* other (execute_workflow leaves concurrency at 1). Every client has connected,
\* in the order of the client numbers, before the run is started.
PubInit ==
  /\ RegistryEmpty /\ NoThreads /\ CallersIdle
  /\ bridge = [enabled |-> FALSE, sink |-> 0, loop |-> FALSE]
  /\ sending = SendingIdle
  /\ NoJobs
  /\ loopq = <<>>
  /\ cache = [current_run_id |-> 0, status |-> "idle", phase |-> "", progress |-> 0,
              connections |-> [w \in Clients |-> w], signals |-> <<>>,
              alias |-> NoThread, charts |-> {}, graph |-> 0]
  /\ bcast = <<>>
  /\ db_runs = <<>>
  /\ db_steps = <<>>
  /\ ws = [w \in Clients |->
             [st |-> "open", init |-> InitMessage,
              inbox |-> <<[kind |-> "init", n |-> 0, epoch |-> 0]>>,
              snap |-> 0, epoch |-> 0, failed |-> FALSE]]
  /\ host = <<>>
  /\ published = <<>>

PubThreadNext(t) ==
  \/ Len(loopq) < MaxQueued /\ Wrap(t)
  \/ Len(loopq) < MaxQueued /\ WfInit(t)
  \/ Len(loopq) < MaxQueued /\ WfIntent(t, 0, 0)
  \/ Len(loopq) < MaxQueued /\ WfSearchEnter(t)
  \/ Len(loopq) < MaxQueued /\ WfSentiment(t)
  \/ Len(loopq) < MaxQueued /\ WfMerge(t, MaxItems)
  \/ Len(loopq) < MaxQueued /\ WfFilter(t, MaxItems, 0)
  \/ Len(loopq) < MaxQueued /\ WfPreloop(t)
  \/ Len(loopq) < MaxQueued /\ WfAnalysisEnter(t)
  \/ Len(loopq) < MaxQueued /\ WfSeqA(t)
  \/ Len(loopq) < MaxQueued /\ WfSeqB(t)
  \/ Len(loopq) < MaxQueued /\ WfPost(t)
  \/ Len(loopq) < MaxQueued /\ WfReport(t)
  \/ Len(loopq) < MaxQueued /\ CleanupAcquire(t)
  \/ Len(loopq) < MaxQueued /\ CleanupPopRun(t)
  \/ Len(loopq) < MaxQueued /\ CleanupPopFlag(t)

PubNext ==
  \/ StartRun(FALSE)
  \/ \E r \in 1..MaxRuns : HostBegin(r)
  \/ RunAsyncIn(1)
  \/ HostRunAsyncFlag
  \/ RunAsyncAcquire(1)
  \/ RunAsyncRegister(1)
  \/ RunAsyncStart(1)
  \/ RunAsyncStartFails(1)
  \/ \E r \in 1..MaxRuns : HostFinalize(r)
  \/ \E r \in 1..MaxRuns : HostExcept(r)
  \/ Deliver
  \/ \E i \in 1..MaxInFlight : BroadcastResume(i)
  \/ \E t \in Tids : PubThreadNext(t)

SpecPub == PubInit /\ [][PubNext]_vars

\* SpecPub with its scheduling: the event loop goes on running whatever coroutine is
\* ready, and a started Thread goes on running (every stage call returns or raises)
SpecPubFair ==
  SpecPub /\ WF_vars(PubNext) /\ WF_vars(\E t \in Tids : PubThreadNext(t))

(* ------------- SpecBridge: _send_event against enable/disable ---------- *)
\* Threads call _send_event while another thread enables and disables the bridge.
\* enable (25-29) and disable (31-34) are three attribute writes each; _send_event
\* reads the attributes at line 37, reads _broadcast_func again when it calls it
\* (line 47) and _loop again when it passes it on (line 48). The three reads of line
\* 37 are one step: they all succeed only if each attribute was set when it was read,
\* and what the later steps see does not depend on when line 37 read it.
EventTypes == {"progress", "step", "signal", "chart", "graph"}

\* the n-th event handed to _send_event, of the given type
EventOf(type, n) ==
  CASE type = "progress" -> PhaseEv("fetch", n)
    [] type = "step" -> StepEv("info", "System", n)
    [] type = "signal" -> Ev("signal", n, 0)
    [] type = "chart" -> Ev("chart", "T1", n)
    [] OTHER -> Ev("graph", n, 0)

\* the number EventOf gave the event
EventNumber(e) ==
  CASE e.type = "progress" -> e.b
    [] e.type = "step" -> e.c
    [] e.type = "signal" -> e.a
    [] e.type = "chart" -> e.b
    [] OTHER -> e.a

SendCalls ==
  Len(sending.log) + Cardinality({t \in Tids : sending.call[t].pc # "idle"})

\* the call of Thread t ends: "scheduled" (the coroutine is on the loop), "returned"
\* (line 38), or "warned" (lines 50-51: the exception is logged as a warning)
SendEventEnds(t, n, type, out) ==
  sending' = [sending EXCEPT !.call[t] = [pc |-> "idle", n |-> 0, type |-> "none", func |-> 0],
                             !.log = Append(@, [n |-> n, type |-> type, out |-> out])]

\* lines 37-43
SendEventCheck(t, type) ==
  /\ sending.call[t].pc = "idle"
  /\ SendCalls < MaxEmits
  /\ IF ~bridge.enabled \/ bridge.sink = 0 \/ ~bridge.loop
       THEN SendEventEnds(t, SendCalls + 1, type, "returned")
       ELSE sending' = [sending EXCEPT !.call[t] = [pc |-> "se_call", n |-> SendCalls + 1,
                                                    type |-> type, func |-> 0]]
  /\ UNCHANGED <<skillVars, regVars, thVars, cl, bridge, loopq, cache, bcast, db_runs,
                 db_steps, ws, host, published>>

\* line 47: self._broadcast_func(...) makes the coroutine; calling None is a TypeError
SendEventCall(t) ==
  /\ sending.call[t].pc = "se_call"
  /\ IF bridge.sink = 0
       THEN SendEventEnds(t, sending.call[t].n, sending.call[t].type, "warned")
       ELSE sending' = [sending EXCEPT !.call[t].pc = "se_sched",
                                       !.call[t].func = bridge.sink]
  /\ UNCHANGED <<skillVars, regVars, thVars, cl, bridge, loopq, cache, bcast, db_runs,
                 db_steps, ws, host, published>>

\* lines 46-51: run_coroutine_threadsafe(coroutine, self._loop); with _loop None its
\* loop.call_soon_threadsafe is an AttributeError
SendEventSchedule(t) ==
  /\ sending.call[t].pc = "se_sched"
  /\ IF ~bridge.loop
       THEN /\ SendEventEnds(t, sending.call[t].n, sending.call[t].type, "warned")
            /\ UNCHANGED loopq
       ELSE /\ SendEventEnds(t, sending.call[t].n, sending.call[t].type, "scheduled")
            /\ loopq' = Append(loopq,
                 [ev |-> EventOf(sending.call[t].type, sending.call[t].n),
                  rid |-> IF ctx[t] \in RunIds THEN ctx[t] ELSE "absent",
                  sink |-> sending.call[t].func, by |-> t])
  /\ UNCHANGED <<skillVars, regVars, thVars, cl, bridge, cache, bcast, db_runs, db_steps,
                 ws, host, published>>

\* enable (25-29), one attribute write at a time
EnableEnabled ==
  /\ sending.switch = "idle"
  /\ bridge' = [bridge EXCEPT !.enabled = TRUE]
  /\ sending' = [sending EXCEPT !.switch = "en_func"]
  /\ UNCHANGED <<skillVars, regVars, thVars, cl, loopq, cache, bcast, db_runs, db_steps,
                 ws, host, published>>

EnableFunc ==
  /\ sending.switch = "en_func"
  /\ bridge' = [bridge EXCEPT !.sink = 1]
  /\ sending' = [sending EXCEPT !.switch = "en_loop"]
  /\ UNCHANGED <<skillVars, regVars, thVars, cl, loopq, cache, bcast, db_runs, db_steps,
                 ws, host, published>>

EnableLoop ==
  /\ sending.switch = "en_loop"
  /\ bridge' = [bridge EXCEPT !.loop = TRUE]
  /\ sending' = [sending EXCEPT !.switch = "idle"]
  /\ UNCHANGED <<skillVars, regVars, thVars, cl, loopq, cache, bcast, db_runs, db_steps,
                 ws, host, published>>

\* disable (31-34), one attribute write at a time
DisableEnabled ==
  /\ sending.switch = "idle"
  /\ bridge' = [bridge EXCEPT !.enabled = FALSE]
  /\ sending' = [sending EXCEPT !.switch = "dis_func"]
  /\ UNCHANGED <<skillVars, regVars, thVars, cl, loopq, cache, bcast, db_runs, db_steps,
                 ws, host, published>>

DisableFunc ==
  /\ sending.switch = "dis_func"
  /\ bridge' = [bridge EXCEPT !.sink = 0]
  /\ sending' = [sending EXCEPT !.switch = "dis_loop"]
  /\ UNCHANGED <<skillVars, regVars, thVars, cl, loopq, cache, bcast, db_runs, db_steps,
                 ws, host, published>>

DisableLoop ==
  /\ sending.switch = "dis_loop"
  /\ bridge' = [bridge EXCEPT !.loop = FALSE]
  /\ sending' = [sending EXCEPT !.switch = "idle"]
  /\ UNCHANGED <<skillVars, regVars, thVars, cl, loopq, cache, bcast, db_runs, db_steps,
                 ws, host, published>>

BridgeNext ==
  \/ \E t \in Tids : \E type \in EventTypes : SendEventCheck(t, type)
  \/ \E t \in Tids : SendEventCall(t)
  \/ \E t \in Tids : SendEventSchedule(t)
  \/ EnableEnabled
  \/ EnableFunc
  \/ EnableLoop
  \/ DisableEnabled
  \/ DisableFunc
  \/ DisableLoop
  \/ Deliver
  \/ \E i \in 1..MaxInFlight : BroadcastResume(i)

SpecBridge == PubInit /\ [][BridgeNext]_vars

(* --------------------- SpecSkill: the skill server ---------------------- *)
\* skills/deepear/scripts/server.py. analyze and get_status run on the event loop;
\* run_workflow_task is a plain function, so BackgroundTasks runs it in a worker
\* thread, and its statements interleave with get_status and with other tasks.

\* analyze (145-166): a fresh job id, the job is stored as pending and the task added
Analyze(j, update_from) ==
  /\ jobs[j].status = "absent"
  /\ \A i \in 1..(j - 1) : jobs[i].status # "absent"
  /\ jobs' = [jobs EXCEPT ![j].status = "pending"]
  /\ task' = [task EXCEPT ![j] = [pc |-> "t_start", update_from |-> update_from]]
  /\ UNCHANGED <<polled, regVars, thVars, cl, bridge, sending, loopq, cache, bcast,
                 db_runs, db_steps, ws, host, published>>

\* lines 98-103: os.chdir, inside the try, raises or not; then status = "running"
TaskStart(j, chdir_ok) ==
  /\ task[j].pc = "t_start"
  /\ IF chdir_ok
       THEN /\ jobs' = [jobs EXCEPT ![j].status = "running"]
            /\ task' = [task EXCEPT ![j].pc = "t_call"]
       ELSE /\ task' = [task EXCEPT ![j].pc = "t_except"]
            /\ UNCHANGED jobs
  /\ UNCHANGED <<polled, regVars, thVars, cl, bridge, sending, loopq, cache, bcast,
                 db_runs, db_steps, ws, host, published>>

\* lines 106-132 and 137-138: SignalFluxWorkflow() and workflow.update_run (tracking
\* mode) or workflow.run return a report path, return None, or raise; the status is
\* assigned before the result or the error
TaskCall(j, out) ==
  /\ task[j].pc = "t_call"
  /\ CASE out = "path" -> /\ jobs' = [jobs EXCEPT ![j].status = "completed"]
                          /\ task' = [task EXCEPT ![j].pc = "t_result"]
       [] out = "none" -> /\ jobs' = [jobs EXCEPT ![j].status = "failed"]
                          /\ task' = [task EXCEPT ![j].pc = "t_noreport"]
       [] OTHER -> /\ task' = [task EXCEPT ![j].pc = "t_except"]
                   /\ UNCHANGED jobs
  /\ UNCHANGED <<polled, regVars, thVars, cl, bridge, sending, loopq, cache, bcast,
                 db_runs, db_steps, ws, host, published>>

\* lines 133-136
TaskResult(j) ==
  /\ task[j].pc = "t_result"
  /\ jobs' = [jobs EXCEPT ![j].result = "report_path"]
  /\ task' = [task EXCEPT ![j].pc = "done"]
  /\ UNCHANGED <<polled, regVars, thVars, cl, bridge, sending, loopq, cache, bcast,
                 db_runs, db_steps, ws, host, published>>

\* line 139
TaskNoReport(j) ==
  /\ task[j].pc = "t_noreport"
  /\ jobs' = [jobs EXCEPT ![j].error = "no report path"]
  /\ task' = [task EXCEPT ![j].pc = "done"]
  /\ UNCHANGED <<polled, regVars, thVars, cl, bridge, sending, loopq, cache, bcast,
                 db_runs, db_steps, ws, host, published>>

\* lines 141-142
TaskExcept(j) ==
  /\ task[j].pc = "t_except"
  /\ jobs' = [jobs EXCEPT ![j].status = "failed"]
  /\ task' = [task EXCEPT ![j].pc = "t_error"]
  /\ UNCHANGED <<polled, regVars, thVars, cl, bridge, sending, loopq, cache, bcast,
                 db_runs, db_steps, ws, host, published>>

\* line 143
TaskError(j) ==
  /\ task[j].pc = "t_error"
  /\ jobs' = [jobs EXCEPT ![j].error = "exception"]
  /\ task' = [task EXCEPT ![j].pc = "done"]
  /\ UNCHANGED <<polled, regVars, thVars, cl, bridge, sending, loopq, cache, bcast,
                 db_runs, db_steps, ws, host, published>>

\* get_status (168-184): 404 for an unknown id, else the job's status, result, error
GetStatus(j) ==
  /\ polled' = [polled EXCEPT ![j] =
                  IF jobs[j].status = "absent"
                    THEN [status |-> "404", result |-> "none", error |-> "none"]
                    ELSE jobs[j]]
  /\ polled'[j] # polled[j]
  /\ UNCHANGED <<jobs, task, regVars, thVars, cl, bridge, sending, loopq, cache, bcast,
                 db_runs, db_steps, ws, host, published>>

SkillNext ==
  \/ \E j \in Jobs : \E update_from \in BOOLEAN : Analyze(j, update_from)
  \/ \E j \in Jobs : \E chdir_ok \in BOOLEAN : TaskStart(j, chdir_ok)
  \/ \E j \in Jobs : \E out \in {"path", "none", "raise"} : TaskCall(j, out)
  \/ \E j \in Jobs : TaskResult(j)
  \/ \E j \in Jobs : TaskNoReport(j)
  \/ \E j \in Jobs : TaskExcept(j)
  \/ \E j \in Jobs : TaskError(j)
  \/ \E j \in Jobs : GetStatus(j)

SpecSkill == Init /\ [][SkillNext]_vars

(* ============================== properties ============================== *)
\* the Threads ever created for run_id rid
ThreadsOf(rid) == {t \in Tids : th_state[t] # "unborn" /\ th_rid[t] = rid}

\* caller c evaluates, in this step, the is_alive() operand of line 126 or the
\* membership test of line 151
ChecksLiveness(c) ==
  /\ cl[c].pc \in {"ra_alive", "ua_in"}
  /\ cl[c].rid \in RunIds
  /\ cl'[c] # cl[c]

\* caller c evaluates, in this step, the membership test of line 126 or of line 151
ChecksMembership(c) ==
  /\ cl[c].pc \in {"ra_in", "ua_in"}
  /\ cl[c].rid \in RunIds
  /\ cl'[c] # cl[c]

Raises(c, e) == cl'[c].pc = "idle" /\ cl'[c].res = e

\* C1 (as amended): a start whose liveness check finds the run_id registered with a
\* live Thread raises RuntimeError; a start whose membership check finds the run_id
\* no longer registered (its Thread has removed the handle in the wrapper's finally)
\* passes the check and goes on to create and start a new Thread, and every caller
\* that reaches thread.start() returns normally.
C1_Uniqueness ==
  [][\A c \in Callers :
       /\ (ChecksLiveness(c) /\ IsRunning(cl[c].rid)) => Raises(c, "RuntimeError")
       /\ (ChecksMembership(c) /\ active_runs[cl[c].rid] = NoThread)
            => cl'[c].pc \in {"ra_flag", "ua_flag"}
       /\ (cl[c].pc \in {"ra_start", "ua_start"} /\ cl'[c] # cl[c]) => Raises(c, "ok")]_vars

\* C1 witness: one start was refused with RuntimeError, the run it collided with has
\* ended, and a later start of the same run_id has a live Thread.
C1_Witness ==
  /\ \E c \in Callers : cl[c].res = "RuntimeError"
  /\ \E t, u \in ThreadsOf("r1") : th_state[t] = "dead" /\ th_state[u] = "alive"

\* C1 as stated: once every run of the run_id has a terminal status, a start of that
\* run_id is not refused.
C1_AsStated ==
  [][\A c \in Callers :
       (ChecksLiveness(c) /\ \A t \in ThreadsOf(cl[c].rid) : rstatus[t] \in Terminal)
         => ~Raises(c, "RuntimeError")]_vars

\* C2: at every instant at most one Thread is executing for a run_id.
C2_SingleExecution ==
  \A r \in RunIds : Cardinality({t \in ThreadsOf(r) : th_state[t] = "alive"}) <= 1


\* C12: cancel returns True exactly when its membership test finds a handle for the
\* run_id, and then sets that run's flag and nothing else; when the test finds no
\* handle it returns False and leaves the handle map and every flag as they were;
\* a cancel of a run whose flag is already set leaves the registry unchanged.
C12_CancelContract ==
  [][\A c \in Callers :
       /\ (cl[c].pc = "cn_in" /\ cl'[c] # cl[c])
            => /\ UNCHANGED regVars
               /\ IF active_runs[cl[c].rid] # NoThread
                    THEN cl'[c].pc = "cn_set"
                    ELSE Raises(c, "false")
       /\ (cl[c].pc = "cn_set" /\ cl'[c] # cl[c])
            => /\ Raises(c, "true")
               /\ cancelled_flags' = [cancelled_flags EXCEPT ![cl[c].rid] = "true"]
               /\ UNCHANGED <<active_runs, lock>>
               /\ cancelled_flags[cl[c].rid] = "true" => UNCHANGED regVars]_vars

\* C12 witness: every calling thread has cancelled the same registered run and
\* got True; the run is still registered and its flag is set.
C12_Witness ==
  /\ \A c \in Callers : cl[c].op = "cancel" /\ cl[c].pc = "idle" /\ cl[c].res = "true"
  /\ active_runs["r1"] # NoThread /\ cancelled_flags["r1"] = "true"

\* C13: once every Thread created for a run_id has terminated, the registry holds
\* neither a handle nor a cancellation flag for it and is_running(run_id) is false.
C13_CleanupComplete ==
  \A r \in RunIds :
    (ThreadsOf(r) # {} /\ \A t \in ThreadsOf(r) : th_state[t] = "dead")
      => (active_runs[r] = NoThread /\ cancelled_flags[r] = "absent" /\ ~IsRunning(r))

\* C14: a start that finds the run_id registered with a live Thread is refused, and a
\* refused start has created no Thread and leaves the handle map, the flags, the lock
\* and every Thread as they were.
C14_RejectedStartChangesNothing ==
  [][\A c \in Callers :
       /\ (ChecksLiveness(c) /\ IsRunning(cl[c].rid)) => Raises(c, "RuntimeError")
       /\ (cl[c].pc # "idle" /\ cl[c].op \in {"run_async", "update_run_async"}
             /\ Raises(c, "RuntimeError"))
            => (cl[c].tid = NoThread /\ UNCHANGED <<regVars, thVars>>)]_vars

\* C14 witness: update_run_async was refused for a run whose cancellation had been
\* requested; the run is still alive, registered and flagged.
C14_Witness ==
  /\ \E c \in Callers : cl[c].op = "update_run_async" /\ cl[c].res = "RuntimeError"
  /\ IsRunning("r1") /\ cancelled_flags["r1"] = "true"

(* ------------------------- properties of one run ------------------------ *)
\* the target of Thread t has returned (the wrapper's finally runs or has run)
Returned(t) == pc[t] \in {"cl_acq", "cl_pop_run", "cl_pop_flag", "done"}

\* Thread t has executed the cb.step call of the given source line
HasStep(t, line) ==
  \E n \in 1..Len(emitted[t]) : emitted[t][n].type = "step" /\ emitted[t][n].c = line

\* check_cancelled found the flag set: its notice (line 205), followed by the raise
Interrupted(t) == HasStep(t, 205)

\* an exception reached the handler of lines 622-625
Escaped(t) == HasStep(t, 623)

\* the signal events Thread t has emitted
SignalEvents(t) == {n \in 1..Len(emitted[t]) : emitted[t][n].type = "signal"}

\* C4: whenever a checkpoint found the cancellation flag set, the run ends cancelled
\* and the top-level handler of InterruptedError has run exactly once.
C4_CheckpointCancels ==
  \A t \in Tids :
    (Returned(t) /\ Interrupted(t)) => (rstatus[t] = "cancelled" /\ handled[t] = 1)

\* C6: a run for which cancel returned True before its target executed a single line
\* (or while the parallel loop still had a result to retrieve) does not end in a
\* status other than cancelled.
C6_CancelEndsCancelled ==
  \A t \in Tids :
    (Returned(t) /\ accepted[t] \in {"entering", "parallel"}) => rstatus[t] = "cancelled"

\* C7: a standard run that returned without an interruption and without an escaped
\* exception, and in which no item was analysed (nothing survived the merge, nothing
\* survived the filter, or no analysis call yielded a signal), ended completed, emitted
\* no signal event and never called generate_report.
C7_ZeroSignalCompletion ==
  \A t \in Tids :
    (th_kind[t] = "run" /\ Returned(t) /\ ~Interrupted(t) /\ ~Escaped(t)
       /\ loc[t].analyzed = <<>>)
      => /\ rstatus[t] = "completed"
         /\ SignalEvents(t) = {}
         /\ loc[t].report_calls = 0
         /\ ~HasStep(t, 570)

\* C7 witness: two items survived the filter, neither analysis call yielded a signal,
\* and the parallel run has returned completed.
C7_Witness ==
  /\ Returned(1) /\ th_args[1].K > 1 /\ ~Interrupted(1)
  /\ loc[1].total = 2 /\ loc[1].analyzed = <<>> /\ rstatus[1] = "completed"
  /\ HasStep(1, 558)

\* the analysis phase of Thread t is over: line 556 has been reached
AnalysisOver(t) ==
  \/ pc[t] = "wf_report"
  \/ Returned(t) /\ (HasStep(t, 558)
                       \/ HasStep(t, 570))

\* the items whose analysis call yields a signal
Successful(t) == {k \in 1..loc[t].total : loc[t].outc[k] = "ok"}

\* C8: without interruption, once the analysis phase is over the analysed items are
\* exactly the items whose analysis call succeeded, each once, with one signal event
\* each, whatever the concurrency K and whatever the completion order of the pool.
C8_SameResultSet ==
  \A t \in Tids :
    (th_kind[t] = "run" /\ AnalysisOver(t) /\ ~Interrupted(t))
      => /\ Range(loc[t].analyzed) = Successful(t)
         /\ Len(loc[t].analyzed) = Cardinality(Successful(t))
         /\ Cardinality(SignalEvents(t)) = Cardinality(Successful(t))

\* C8 witness: a parallel run collected two successful items in the order opposite to
\* their submission.
C8_Witness ==
  /\ th_args[1].K > 1 /\ AnalysisOver(1) /\ ~Interrupted(1)
  /\ loc[1].analyzed = <<2, 1>>

\* the items whose analysis call raises
FailedItems(t) == {k \in 1..loc[t].total : loc[t].outc[k] = "exc"}

\* the warning and error steps the analysis phase of Thread t recorded for items
ItemFailureSteps(t) ==
  {n \in 1..Len(emitted[t]) :
     /\ emitted[t][n].type = "step"
     /\ emitted[t][n].a \in {"warning", "error"}
     /\ emitted[t][n].b = "FinAgent"}

\* C17: without interruption, once the analysis phase is over every item whose
\* analysis call raised has a warning or error step, every other item was analysed
\* and aggregated as if no item had failed, and the run has not failed.
C17_ItemFailureIsolated ==
  \A t \in Tids :
    (th_kind[t] = "run" /\ AnalysisOver(t) /\ ~Interrupted(t))
      => /\ Cardinality(ItemFailureSteps(t)) >= Cardinality(FailedItems(t))
         /\ Range(loc[t].analyzed) = Successful(t)
         /\ rstatus[t] # "failed"

\* C21: in a parallel run, from the moment check_cancelled found the flag set at a
\* result retrieval (its notice of line 205 followed by the error step of line 463),
\* no signal, chart or graph event is emitted, no item is added to the analysed
\* signals or saved, generate_report is not called, and the executor is left only
\* when no analysis call is running or still queued.
C21_NoAggregationAfterCancel ==
  [][\A t \in Tids :
       LET SeenAtRetrieval ==
             \E n \in 1..(Len(emitted[t]) - 1) :
               /\ emitted[t][n].type = "step" /\ emitted[t][n].c = 205
               /\ emitted[t][n + 1].type = "step" /\ emitted[t][n + 1].c = 463
       IN  (th_args[t].K > 1 /\ SeenAtRetrieval) =>
             /\ \A n \in (Len(emitted[t]) + 1)..Len(emitted'[t]) :
                  emitted'[t][n].type \notin {"signal", "chart", "graph"}
             /\ loc'[t].analyzed = loc[t].analyzed
             /\ loc'[t].saved = loc[t].saved
             /\ loc'[t].report_calls = loc[t].report_calls
             /\ (pc[t] = "wf_par" /\ pc'[t] # "wf_par") => AllCollected(t)]_vars

\* C21 witness: a parallel run aggregated its first result, found the flag set when
\* it retrieved the second, entered the report phase and returned without a call of
\* generate_report.
C21_Witness ==
  /\ th_args[1].K > 1 /\ Returned(1)
  /\ loc[1].total = 2 /\ Len(loc[1].analyzed) = 1 /\ Len(loc[1].saved) = 1
  /\ HasStep(1, 463) /\ Interrupted(1) /\ HasStep(1, 570)
  /\ loc[1].report_calls = 0

\* C22: in a parallel run, from the moment check_cancelled found the flag set at a
\* result retrieval, no analysis call that is still queued in the pool is started.
C22_NoStartAfterCancel ==
  [][\A t \in Tids :
       LET SeenAtRetrieval ==
             \E n \in 1..(Len(emitted[t]) - 1) :
               /\ emitted[t][n].type = "step" /\ emitted[t][n].c = 205
               /\ emitted[t][n + 1].type = "step" /\ emitted[t][n + 1].c = 463
       IN  (th_args[t].K > 1 /\ SeenAtRetrieval) =>
             \A k \in DOMAIN loc[t].fut :
               loc[t].fut[k] = "queued" => loc'[t].fut[k] = "queued"]_vars

\* C23: at most K analysis calls are running at any moment; with K = 1 no call runs
\* in the pool, the items are analysed one at a time in their original order (the
\* analysed signals are in increasing item order) and the signal events are emitted
\* in that order.
C23_ConcurrencyBound ==
  \A t \in Tids :
    /\ Cardinality(Running(t)) <= th_args[t].K
    /\ th_args[t].K = 1 =>
         /\ loc[t].fut = <<>>
         /\ \A m, n \in 1..Len(loc[t].analyzed) :
              m < n => loc[t].analyzed[m] < loc[t].analyzed[n]
         /\ \A m, n \in SignalEvents(t) : m < n => emitted[t][m].a < emitted[t][n].a
         /\ \A n \in 1..Len(loc[t].analyzed) : loc[t].analyzed[n] <= loc[t].i

\* C23 witness: with K = 2 and three items, two analysis calls are running and the
\* third item is waiting for a worker.
C23_Witness ==
  /\ th_args[1].K = 2 /\ pc[1] = "wf_par"
  /\ Cardinality(Running(1)) = 2 /\ Cardinality(Queued(1)) = 1

\* C24: once the analysis phase of a run in which no checkpoint found the flag set is
\* over, every item whose analysis call yielded a signal has exactly one entry in the
\* analysed signals and exactly one signal event, every other item has none, and every
\* item was retrieved (the completed count, or the loop index, equals N).
C24_AggregatedExactlyOnce ==
  \A t \in Tids :
    (th_kind[t] = "run" /\ AnalysisOver(t) /\ ~Interrupted(t)) =>
      /\ \A k \in 1..loc[t].total :
           LET want == IF loc[t].outc[k] = "ok" THEN 1 ELSE 0
           IN  /\ Cardinality({n \in 1..Len(loc[t].analyzed) : loc[t].analyzed[n] = k}) = want
               /\ Cardinality({n \in SignalEvents(t) : emitted[t][n].a = k}) = want
      /\ IF th_args[t].K > 1
           THEN loc[t].ccount = loc[t].total /\ AllCollected(t)
           ELSE loc[t].i = loc[t].total

\* C24 witness: a parallel run over three items, of which the second failed, has
\* retrieved the third result before the first and its analysis phase is over.
C24_Witness ==
  /\ th_args[1].K > 1 /\ AnalysisOver(1) /\ ~Interrupted(1)
  /\ loc[1].outc = <<"ok", "exc", "ok">>
  /\ loc[1].analyzed = <<3, 1>> /\ loc[1].ccount = 3

\* C25: every per-item progress event emitted after the analysis phase was announced
\* carries 50 + floor(c * 25 / N), a value within 50..75, where c is the number of
\* items whose result is complete when the event is emitted (none before the first
\* analysis call, the retrieved results in the pool, the analysed items in the
\* sequential loop).
C25_ProgressFormula ==
  [][\A t \in Tids :
       \A n \in (Len(emitted[t]) + 1)..Len(emitted'[t]) :
         (emitted'[t][n].type = "progress" /\ emitted'[t][n].a = "item") =>
           LET c == CASE pc'[t] = "wf_preloop" -> 0
                      [] th_args[t].K > 1 -> loc'[t].ccount
                      [] OTHER -> loc'[t].i
           IN  /\ emitted'[t][n].b \in 50..75
               /\ emitted'[t][n].b = ItemProgress(c, loc'[t].total)]_vars

\* C26: the phase events of a standard run appear in the fixed order initialize,
\* discovery, fetch, active search, sentiment refresh, filtering, analysis (with its
\* per-item events), report, finalize; none but the per-item event appears twice; and
\* the active-search phase is entered only in a run with a query whose intent
\* analysis yielded at least one search term.
C26_PhasesInOrder ==
  \A t \in Tids :
    LET Rank(name) ==
          CASE name = "init" -> 1 [] name = "discovery" -> 2 [] name = "fetch" -> 3
            [] name = "search" -> 4 [] name = "sentiment" -> 5 [] name = "filter" -> 6
            [] name = "analysis" -> 7 [] name = "item" -> 7 [] name = "report" -> 8
            [] OTHER -> 9
        Phases == {n \in 1..Len(emitted[t]) : emitted[t][n].type = "progress"}
    IN  th_kind[t] = "run" =>
          /\ \A m, n \in Phases :
               m < n => /\ Rank(emitted[t][m].a) <= Rank(emitted[t][n].a)
                        /\ emitted[t][m].a = emitted[t][n].a => emitted[t][m].a = "item"
          /\ (\E n \in Phases : emitted[t][n].a = "search") =>
               (th_args[t].query /\ loc[t].nq > 0)

(* --------------------- properties of the dashboard server --------------- *)
\* the Thread execute_workflow r started: Threads are created in the order of the runs
RunThread(r) == r

\* C3: a terminal status is never overwritten by another status, neither in the run
\* state of a run nor in its Run record.
C3_TerminalIsFinal ==
  [][/\ (cache.status \in Terminal /\ cache'.current_run_id = cache.current_run_id)
          => cache'.status = cache.status
     /\ \A r \in DOMAIN db_runs :
          db_runs[r].status \in Terminal => db_runs'[r].status = db_runs[r].status]_vars

\* C5: a run in which an exception reached the handler of lines 622-625 is recorded
\* as failed, with an error message, whenever its Run record is terminal.
C5_EscapedExceptionFails ==
  \A r \in DOMAIN db_runs :
    (Escaped(RunThread(r)) /\ db_runs[r].status \in Terminal)
      => (db_runs[r].status = "failed" /\ db_runs[r].error_message # "none")

\* C16: every event scheduled on the loop carries in its payload the run_id of the
\* run whose Thread emitted it.
C16_EventsCarryRunId ==
  \A k \in 1..Len(loopq) : loopq[k].rid \in RunIds

\* the state obtained by replaying a sequence of events from the empty state
RECURSIVE Replay(_)
Replay(evs) ==
  IF evs = <<>>
    THEN [phase |-> "", progress |-> 0, steps |-> <<>>, signals |-> <<>>, charts |-> {},
          graph |-> 0]
    ELSE LET st == Replay(SubSeq(evs, 1, Len(evs) - 1))
             e == evs[Len(evs)]
         IN  CASE e.type = "progress" -> [st EXCEPT !.phase = e.a, !.progress = e.b]
               [] e.type = "step" -> [st EXCEPT !.steps = Append(@, e)]
               [] e.type = "signal" -> [st EXCEPT !.signals = Append(@, e.a)]
               [] e.type = "chart" -> [st EXCEPT !.charts = Upsert(@, e.a, e.b)]
               [] e.type = "graph" -> [st EXCEPT !.graph = e.a]
               [] OTHER -> st

\* what a client knows of the phase and the progress after its init message: a
\* message without these fields leaves them as in the empty state
InitPhase(m) == IF "phase" \in DOMAIN m THEN m.phase ELSE ""
InitProgress(m) == IF "progress" \in DOMAIN m THEN m.progress ELSE 0

\* the live events client w has received
LiveEvents(w) ==
  {ws[w].inbox[k].n : k \in {j \in 1..Len(ws[w].inbox) : ws[w].inbox[j].kind = "event"}}

\* nothing is scheduled or in flight on the event loop
Quiescent == loopq = <<>> /\ bcast = <<>>

\* C9: the init message of a client that attached after M events were published
\* since the last reset equals the replay of these M events, and once the loop is
\* quiescent the client has received every event published after its snapshot.
C9_ReplayConsistency ==
  \A w \in Clients :
    (ws[w].st = "open" /\ ws[w].epoch = Len(db_runs))
      => LET m == ws[w].init
             st == Replay(SubSeq(published, 1, ws[w].snap))
         IN  /\ InitPhase(m) = st.phase
             /\ InitProgress(m) = st.progress
             /\ m.steps = st.steps
             /\ m.signals = st.signals
             /\ m.charts = st.charts
             /\ m.graph = st.graph
             /\ Quiescent => \A n \in (ws[w].snap + 1)..Len(published) : n \in LiveEvents(w)

\* message m, received by client w, is a live event whose content the init message
\* of w already carries: it was published before the snapshot was taken, and it is
\* not a progress event (the init message has no phase)
InSnapshot(w, m) ==
  /\ m.kind = "event"
  /\ m.epoch = ws[w].epoch /\ ws[w].epoch = Len(db_runs)
  /\ m.n <= ws[w].snap
  /\ published[m.n].type # "progress"

\* C10: the first message a client receives is its init message, and no live event
\* it receives is already contained in its snapshot.
C10_AtomicAttach ==
  \A w \in Clients :
    ws[w].st = "open"
      => /\ ws[w].inbox[1].kind = "init"
         /\ \A k \in 2..Len(ws[w].inbox) : ~InSnapshot(w, ws[w].inbox[k])

(* ------------------- properties of the fan-out to clients --------------- *)
\* C11: once the loop is quiescent, a client to which a send has failed is no longer
\* in the list of connections, and every client whose connection is intact has
\* received every event published since it attached.
C11_DeadSubscriberIsolated ==
  Quiescent =>
    /\ \A w \in Clients : ws[w].failed => w \notin Range(cache.connections)
    /\ \A w \in Clients :
         (ws[w].st = "open" /\ ws[w].epoch = Len(db_runs))
           => \A n \in (ws[w].snap + 1)..Len(published) : n \in LiveEvents(w)

\* the fields of the cache other than those named in the set fs are left alone
CacheKeeps(fs) ==
  \A f \in {"current_run_id", "status", "phase", "progress", "connections", "signals",
             "charts", "graph"} \ fs : cache'[f] = cache[f]

\* the broadcasts that end in this step
Finishing == {bcast[i].msg : i \in DOMAIN bcast} \ {bcast'[i].msg : i \in DOMAIN bcast'}

\* C18: a step that publishes event e updates exactly the cache field of e's type
\* (progress: phase and progress; signal: appended to signals; chart: the entry of
\* its ticker becomes the only one for that ticker; graph: replaced; any other type:
\* nothing) and sends e to the first connection; when its fan-out ends, every
\* connection has received it.
C18_PublishUpdatesAndFansOut ==
  [][/\ Len(published') = Len(published) + 1 =>
          LET e == published'[Len(published')]
              m == [kind |-> "event", n |-> Len(published'), epoch |-> Len(db_runs)]
          IN  /\ CASE e.type = "progress" ->
                        /\ cache'.phase = e.a /\ cache'.progress = e.b
                        /\ CacheKeeps({"phase", "progress"})
                    [] e.type = "signal" ->
                        /\ cache'.signals = Append(cache.signals, e.a)
                        /\ CacheKeeps({"signals"})
                    [] e.type = "chart" ->
                        /\ {c \in cache'.charts : c.ticker = e.a}
                             = {[ticker |-> e.a, data |-> e.b]}
                        /\ {c \in cache'.charts : c.ticker # e.a}
                             = {c \in cache.charts : c.ticker # e.a}
                        /\ CacheKeeps({"charts"})
                    [] e.type = "graph" ->
                        /\ cache'.graph = e.a
                        /\ CacheKeeps({"graph"})
                    [] OTHER -> CacheKeeps({})
              /\ cache.connections # <<>> =>
                   ws'[cache.connections[1]].inbox
                     = Append(ws[cache.connections[1]].inbox, m)
     /\ \A m \in Finishing : \A w \in Range(cache.connections) :
          m \in Range(ws[w].inbox)]_vars

\* C18 witness: two chart events for the same ticker, a signal and a graph have been
\* published to two clients; the cache holds one chart for the ticker, the later one.
C18_Witness ==
  /\ Quiescent /\ Len(cache.connections) = 2
  /\ Cardinality({n \in 1..Len(published) : published[n].type = "chart"}) = 2
  /\ cache.charts = {[ticker |-> "T1", data |-> 2]}
  /\ cache.graph = 2

\* C19: every terminal message sent, or being sent, agrees with the Run record of its
\* run (completed with the record's signal_count when the record is completed, error
\* when it is failed with a stored message); no client receives two terminal messages
\* of one run, and once the finalization is over every attached client has received one.
C19_TerminalEventAgrees ==
  LET IsTerminal(m) == m.kind \in {"completed", "error"}
      Agrees(m) ==
        \/ /\ m.kind = "completed"
           /\ db_runs[m.epoch].status = "completed"
           /\ m.n = db_runs[m.epoch].signal_count
        \/ /\ m.kind = "error"
           /\ db_runs[m.epoch].status = "failed"
           /\ db_runs[m.epoch].error_message # "none"
  IN  /\ \A i \in DOMAIN bcast : IsTerminal(bcast[i].msg) => Agrees(bcast[i].msg)
      /\ \A w \in Clients : \A k \in DOMAIN ws[w].inbox :
           IsTerminal(ws[w].inbox[k]) =>
             /\ Agrees(ws[w].inbox[k])
             /\ \A j \in 1..(k - 1) :
                  ~(IsTerminal(ws[w].inbox[j]) /\ ws[w].inbox[j].epoch = ws[w].inbox[k].epoch)
      /\ \A r \in DOMAIN host :
           host[r].pc = "done" =>
             \A w \in Clients :
               (ws[w].st = "open" /\ w \in Range(cache.connections)) =>
                 \E k \in DOMAIN ws[w].inbox :
                   IsTerminal(ws[w].inbox[k]) /\ ws[w].inbox[k].epoch = r

\* C19 witness: a run that produced a signal has been finalized as completed and
\* every client has received its completed message.
C19_Witness ==
  /\ Len(db_runs) = 1 /\ host[1].pc = "done"
  /\ db_runs[1].status = "completed" /\ db_runs[1].signal_count >= 1
  /\ \A w \in Clients :
       [kind |-> "completed", n |-> db_runs[1].signal_count, epoch |-> 1] \in Range(ws[w].inbox)

(* ------------------- properties of the callback bridge ------------------ *)
\* C15: every _send_event call has returned to its caller without an exception, and a
\* call that did not put its event on the loop logged a diagnostic, its event being
\* neither scheduled on the loop nor applied to the cache and fanned out.
C15_DroppedEventsAreLogged ==
  \A k \in DOMAIN sending.log :
    /\ sending.log[k].out \in {"scheduled", "warned", "returned"}
    /\ sending.log[k].out # "scheduled" =>
         /\ sending.log[k].out = "warned"
         /\ \A j \in DOMAIN loopq : EventNumber(loopq[j].ev) # sending.log[k].n
         /\ \A j \in DOMAIN published : EventNumber(published[j]) # sending.log[k].n

(* -------------------- properties of the skill server -------------------- *)
\* C20: a job's status changes only from pending to running and from running to
\* completed or failed, so a terminal status never changes; and every get_status
\* response that says completed carries the result with the report path, every
\* response that says failed carries an error.
C20_JobLifecycle ==
  [][\A j \in Jobs :
       /\ jobs'[j].status # jobs[j].status =>
            <<jobs[j].status, jobs'[j].status>> \in
              {<<"absent", "pending">>, <<"pending", "running">>,
               <<"running", "completed">>, <<"running", "failed">>}
       /\ polled'[j].status = "completed" => polled'[j].result = "report_path"
       /\ polled'[j].status = "failed" => polled'[j].error # "none"]_vars


C28_CacheWrittenByOneThread ==
  [][LET Fields(c) == <<c.status, c.phase, c.progress, c.signals, c.alias, c.charts,
                        c.graph>>
     IN  Fields(cache') # Fields(cache) =>
           \A t \in Tids : th_state[t] = "alive" => pc'[t] = pc[t]]_vars

(* ---------------------- properties of the registry lock ----------------- *)
\* C29: the registry lock is held only around the registration of a Thread
\* (run_async, update_run_async) and around the two pops of a wrapper's cleanup:
\* whoever holds it is at one of those positions, can take its next step whatever
\* the other threads do, emits nothing while holding it and is in no stage, and
\* every step of a holder that leaves those positions releases the lock
C29_LockOnlyAroundRegistry ==
  /\ [](/\ lock[1] = "caller" =>
             /\ cl[lock[2]].pc \in {"ra_reg", "ua_reg"}
             /\ cl[lock[2]].op \in {"run_async", "update_run_async"}
             /\ \/ (ENABLED RunAsyncRegister(lock[2]))
                \/ (ENABLED UpdateRunAsyncRegister(lock[2]))
        /\ lock[1] = "thread" =>
             /\ pc[lock[2]] \in {"cl_pop_run", "cl_pop_flag"}
             /\ \/ (ENABLED CleanupPopRun(lock[2]))
                \/ (ENABLED CleanupPopFlag(lock[2])))
  /\ [][/\ lock[1] = "thread" =>
             /\ emitted'[lock[2]] = emitted[lock[2]]
             /\ pc'[lock[2]] \notin {"cl_pop_run", "cl_pop_flag"} => lock' = Free
        /\ lock[1] = "caller" =>
             (cl'[lock[2]].pc \notin {"ra_reg", "ua_reg"} => lock' = Free)]_vars

C29_Witness ==
  \E t \in Tids, u \in Tids :
    /\ lock = <<"thread", t>>
    /\ pc[t] = "cl_pop_flag"
    /\ u # t
    /\ th_state[u] = "alive"
    /\ pc[u] \notin {"none", "wrap", "cl_acq", "cl_pop_run", "cl_pop_flag", "done"}

(* ------------------------ properties of RunState.reset ------------------ *)
\* C30: reset(run_id) runs once for every run, when the run is created, and before
\* any event of the run is published: the run id of the cache is always that of the
\* latest run created and changes in no other step; the step that creates a run
\* leaves the cache with that run id, status running, progress 0, no signals, no
\* charts and an empty graph; no later step clears the signals or the charts again;
\* an event is applied to the cache only after the reset of its run
C30_ResetOncePerRun ==
  /\ [](cache.current_run_id = Len(db_runs))
  /\ [][/\ Len(db_runs') # Len(db_runs) =>
             /\ Len(db_runs') = Len(db_runs) + 1
             /\ cache'.current_run_id = Len(db_runs')
             /\ cache'.status = "running"
             /\ cache'.progress = 0
             /\ cache'.signals = <<>>
             /\ cache'.charts = {}
             /\ cache'.graph = 0
        /\ Len(db_runs') = Len(db_runs) =>
             /\ cache'.current_run_id = cache.current_run_id
             /\ cache.signals # <<>> => cache'.signals # <<>>
             /\ cache.charts # {} => cache'.charts # {}
        /\ Len(published') > Len(published) =>
             /\ loopq # <<>>
             /\ Head(loopq).sink >= 1
             /\ cache.current_run_id >= Head(loopq).sink]_vars

C30_Witness ==
  /\ cache.current_run_id = 1
  /\ Len(db_runs) = 1
  /\ Len(published) >= 2
  /\ cache.phase # "initial"
  /\ cache.progress > 0

(* ------------------- properties of the progress values ------------------ *)
\* C34: the percentages of the progress events of a run never decrease in the order
\* of emission, and the last progress event of a run that ended completed carries 100
C34_ProgressNeverDecreases ==
  \A t \in Tids :
    LET prog == SelectSeq(emitted[t], LAMBDA e : e.type = "progress")
    IN  /\ \A n \in 1..(Len(prog) - 1) : prog[n].b <= prog[n + 1].b
        /\ (Returned(t) /\ rstatus[t] = "completed" /\ prog # <<>>) =>
             prog[Len(prog)].b = 100

(* ------------------ properties of the end of a hosted run --------------- *)
\* C35: the signal_count stored in the record of a run finalized as completed, and
\* the one its completed message carries, is the number of signal events the run's
\* Thread emitted
C35_SignalCountIsExact ==
  \A r \in DOMAIN db_runs :
    db_runs[r].status = "completed" =>
      /\ db_runs[r].signal_count = Cardinality(SignalEvents(RunThread(r)))
      /\ \A w \in Clients : \A k \in DOMAIN ws[w].inbox :
           (ws[w].inbox[k].kind = "completed" /\ ws[w].inbox[k].epoch = r) =>
             ws[w].inbox[k].n = Cardinality(SignalEvents(RunThread(r)))

\* C36: once the record of a run is finalized and its completed or error message is
\* being broadcast, no event of the run is applied to the cache or stored as a step
\* any more, and no client receives an event message after the terminal message
C36_TerminalEventIsLast ==
  /\ [](\A w \in Clients : \A k \in DOMAIN ws[w].inbox :
          ws[w].inbox[k].kind \in {"completed", "error"} =>
            \A j \in (k + 1)..Len(ws[w].inbox) : ws[w].inbox[j].kind # "event")
  /\ [][(\E r \in DOMAIN host : host[r].pc \in {"broadcasting", "done"}) =>
          /\ published' = published
          /\ db_steps' = db_steps
          /\ cache'.phase = cache.phase /\ cache'.progress = cache.progress
          /\ cache'.signals = cache.signals /\ cache'.charts = cache.charts
          /\ cache'.graph = cache.graph]_vars

\* C38: reset changes neither the list of connections nor a client: the step that
\* creates a run leaves both as they were, and a client attached before the run was
\* created has, once nothing is scheduled or suspended any more, every event of the
\* run in its inbox, in order, without having attached again
C38_ResetKeepsSubscribers ==
  /\ [](\A w \in Clients :
          (ws[w].st = "open" /\ ws[w].epoch = 0 /\ Len(db_runs) = 1 /\ Quiescent) =>
            LET evs == SelectSeq(ws[w].inbox, LAMBDA msg : msg.kind = "event")
            IN  /\ w \in Range(cache.connections)
                /\ Len(evs) = Len(published)
                /\ \A n \in 1..Len(evs) : evs[n].n = n /\ evs[n].epoch = 1)
  /\ [][Len(db_runs') # Len(db_runs) =>
          /\ cache'.connections = cache.connections
          /\ ws' = ws]_vars

C38_Witness ==
  /\ Len(db_runs) = 1
  /\ host[1].pc = "done"
  /\ Quiescent
  /\ Len(published) >= 2
  /\ \E w \in Clients :
       /\ ws[w].st = "open" /\ ws[w].epoch = 0
       /\ Len(SelectSeq(ws[w].inbox, LAMBDA msg : msg.kind = "event")) = Len(published)

(* --------------------- properties of cancel and start ------------------- *)
\* C39: a start clears the flag of its run_id, and a cancel sets the flag only for
\* the run its membership test found: when cancel writes the flag after the Thread of
\* that run has ended, no other handle is registered for the run_id and no later
\* start of the run_id has already cleared the flag for a Thread of its own
C39_CancelHitsOnlyItsRun ==
  [][\A c \in Callers :
       /\ (cl[c].pc \in {"ra_flag", "ua_flag"} /\ cl'[c].pc # cl[c].pc) =>
            cancelled_flags'[cl[c].rid] = "false"
       /\ (/\ cl[c].op = "cancel" /\ cl[c].pc = "cn_set" /\ cl'[c].pc = "idle"
           /\ th_state[cl[c].tid] = "dead") =>
            /\ active_runs[cl[c].rid] \in {NoThread, cl[c].tid}
            /\ \A d \in Callers :
                 (cl[d].rid = cl[c].rid /\ cl[d].pc \in {"ra_acq", "ra_reg", "ra_start",
                                                         "ua_acq", "ua_reg", "ua_start"})
                   => cl[d].tid = cl[c].tid]_vars

(* ------------------------ termination of a hosted run ------------------- *)
\* C40: a run whose record was created with status running is finalized: its
\* record gets a terminal status, execute_workflow leaves its wait and ends, and the
\* bridge is disabled. Stated for the first run of the server, up to the creation
\* of a second run
C40_EveryRunIsFinalized ==
  \A r \in {1} :
    (r \in DOMAIN db_runs /\ db_runs[r].status = "running")
      ~> (\/ /\ r \in DOMAIN db_runs /\ db_runs[r].status \in Terminal
             /\ r \in DOMAIN host /\ host[r].pc = "done"
             /\ ~bridge.enabled
          \/ Len(db_runs) > 1)

C40_Witness ==
  /\ Len(db_runs) = 1
  /\ db_runs[1].status = "completed"
  /\ host[1].pc = "done"
  /\ ~bridge.enabled
  /\ th_state[RunThread(1)] = "dead"
  /\ Len(published) >= 2

(* -------------------- properties of the stage calls --------------------- *)
\* C33: within one run fetch_news_content is called at most once for an item, the
\* analysis of an item is attempted at most once, and generate_report is called at
\* most once
C33_OneAttemptPerInput ==
  \A t \in Tids :
    /\ \A k \in 1..loc[t].total :
         /\ Cardinality({n \in 1..Len(loc[t].fetched) : loc[t].fetched[n] = k}) <= 1
         /\ Cardinality({n \in 1..Len(loc[t].analyzed) : loc[t].analyzed[n] = k}) <= 1
    /\ loc[t].report_calls <= 1


\* C32: the steps of the store are append-only and immutable: no operation of the
\* store changes or removes a step once it is written, and a new step comes after
\* all the steps written before it.
C32_StepsAreAppendOnly ==
  [][/\ Len(db_steps') >= Len(db_steps)
     /\ \A k \in 1..Len(db_steps) : db_steps'[k] = db_steps[k]]_vars

\* C31: the bridge is disabled only when no run is in flight: in every state where
\* the Thread of a dashboard run is alive and still registered, the bridge is enabled.
C31_BridgeEnabledWhileRunAlive ==
  \A t \in Tids :
    (th_state[t] = "alive" /\ th_rs[t] = "global" /\ active_runs[NoneId] = t)
      => bridge.enabled

\* C37: runs are isolated: a step is persisted under the run whose Thread emitted it,
\* and a signal, chart or graph is cached while that run is the current run of the
\* cache.
C37_EventsStayInTheirRun ==
  [][(loopq # <<>> /\ loopq' = Tail(loopq)) =>
       LET m == Head(loopq)
       IN  /\ m.ev.type = "step" => RunThread(m.sink) = m.by
           /\ m.ev.type \in {"signal", "chart", "graph"} =>
                 RunThread(cache.current_run_id) = m.by]_vars
====
